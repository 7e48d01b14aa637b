------------------------ MODULE StorageAdmissionProofs ------------------------
(***************************************************************************)
(* Proofs about the byte ledger of a bucket (StorageAdmission).            *)
(*                                                                         *)
(* One inductive invariant, AdmInv, says what every job has reserved, what *)
(* it has used of it, and what each write of the ledger that is under way  *)
(* stands for.  A sum of bytes is the cardinality of a set of bytes        *)
(* (Total), so that the theorems about finite sets speak of it.            *)
(***************************************************************************)
EXTENDS StorageAdmission, FiniteSetTheorems, TLAPS

-----------------------------------------------------------------------------
(***************************************************************************)
(* Sums.                                                                   *)
(***************************************************************************)
BytesOf(f, S) == UNION {{x} \X (1..f[x]) : x \in S}

\* A byte of f over S is one of the f[x] bytes of some x.
LEMMA BytesIn ==
  ASSUME NEW S, NEW f, NEW b
  PROVE  b \in BytesOf(f, S) <=> \E x \in S : \E n \in 1..f[x] : b = <<x, n>>
<1>1. b \in BytesOf(f, S) <=> \E x \in S : b \in {x} \X (1..f[x])
  BY DEF BytesOf
<1> QED  BY <1>1

\* A sum of naturals over a finite set is a natural: the number of the bytes.
LEMMA BytesFinite ==
  ASSUME NEW S, IsFiniteSet(S), NEW f, \A x \in S : f[x] \in Nat
  PROVE  IsFiniteSet(BytesOf(f, S)) /\ Total(f, S) = Cardinality(BytesOf(f, S)) /\ Total(f, S) \in Nat
<1> DEFINE Row(x) == {x} \X (1..f[x])
           rows == [x \in S |-> Row(x)]
           T == {Row(x) : x \in S}
<1>1. rows \in Surjection(S, T)
  BY DEF Surjection
<1>2. IsFiniteSet(T)
  <2> HIDE DEF rows, T
  <2> QED  BY <1>1, FS_Surjection
<1>3. \A x \in S : IsFiniteSet(Row(x))
  <2> TAKE x \in S
  <2>1. IsFiniteSet({x})
    BY FS_Singleton
  <2>2. IsFiniteSet(1..f[x])
    BY FS_Interval
  <2> QED  BY <2>1, <2>2, FS_Product
<1>4. \A R \in T : IsFiniteSet(R)
  BY <1>3
<1>5. IsFiniteSet(UNION T)
  <2> HIDE DEF T
  <2> QED  BY <1>2, <1>4, FS_UNION
<1> QED  BY <1>5, FS_CardinalityType DEF BytesOf, Total

\* A sum of fewer and smaller numbers is no larger.
LEMMA TotalAtMost ==
  ASSUME NEW T, IsFiniteSet(T), NEW S \in SUBSET T, NEW f, NEW g,
         \A x \in S : f[x] \in Nat /\ f[x] <= g[x], \A x \in T : g[x] \in Nat
  PROVE  Total(f, S) <= Total(g, T)
<1>1. IsFiniteSet(S)
  BY FS_Subset
<1>2. BytesOf(f, S) \in SUBSET BytesOf(g, T)
  BY BytesIn
<1> QED  BY <1>1, <1>2, FS_Subset, BytesFinite

\* A sum grows with one of its numbers.
LEMMA TotalGrows ==
  ASSUME NEW S, IsFiniteSet(S), NEW f, NEW g, NEW z \in S, f[z] < g[z],
         \A x \in S : f[x] \in Nat /\ g[x] \in Nat /\ f[x] <= g[x]
  PROVE  Total(f, S) + 1 <= Total(g, S)
<1>1. BytesOf(f, S) \in SUBSET BytesOf(g, S)
  BY BytesIn
<1>2. <<z, g[z]>> \in BytesOf(g, S)
  BY BytesIn
<1>3. <<z, g[z]>> \notin BytesOf(f, S)
  BY BytesIn
<1>4. Total(f, S) <= Total(g, S) /\ Total(f, S) # Total(g, S)
  BY <1>1, <1>2, <1>3, FS_Subset, BytesFinite
<1> QED  BY <1>4, BytesFinite

\* The empty sum.
LEMMA TotalNothing == \A f : Total(f, {}) = 0
BY FS_EmptySet DEF Total

\* Some of S have one more.
LEMMA TotalWithSome ==
  ASSUME NEW S, IsFiniteSet(S), NEW A \in SUBSET S, NEW f, NEW g,
         \A x \in S : f[x] \in Nat /\ g[x] \in Nat /\ f[x] <= g[x],
         \A x \in A : f[x] + 1 <= g[x]
  PROVE  Total(f, S) + Cardinality(A) <= Total(g, S)
<1> DEFINE next == [x \in A |-> <<x, f[x] + 1>>]
           N == {<<x, f[x] + 1>> : x \in A}
           F == BytesOf(f, S)
           G == BytesOf(g, S)
<1>1. IsFiniteSet(A)
  BY FS_Subset
<1>2. next \in Bijection(A, N)
  BY DEF Bijection, Injection, Surjection, IsInjective
<1>3. ExistsBijection(A, N)
  BY <1>2 DEF ExistsBijection
<1>4. IsFiniteSet(N) /\ Cardinality(N) = Cardinality(A)
  <2> HIDE DEF N
  <2> QED  BY <1>1, <1>3, FS_Bijection
<1>5. F \cap N = {}
  BY BytesIn
<1>6. F \cup N \in SUBSET G
  BY BytesIn
<1> HIDE DEF F, G, N
<1>7. IsFiniteSet(F) /\ IsFiniteSet(G) /\ Total(f, S) = Cardinality(F) /\ Total(g, S) = Cardinality(G)
  BY BytesFinite DEF F, G
<1>8. Cardinality(F \cup N) = Cardinality(F) + Cardinality(N)
  <2>1. Cardinality(F \cup N) = Cardinality(F) + Cardinality(N) - Cardinality(F \cap N)
    BY <1>4, <1>7, FS_Union
  <2>2. Cardinality(F \cap N) = 0
    BY <1>5, FS_EmptySet
  <2>3. Cardinality(F) \in Nat /\ Cardinality(N) \in Nat
    BY <1>4, <1>7, FS_CardinalityType
  <2> QED  BY <2>1, <2>2, <2>3
<1>9. Cardinality(F \cup N) <= Cardinality(G)
  BY <1>6, <1>7, FS_Subset
<1> QED  BY <1>4, <1>7, <1>8, <1>9

\* One of S has more.
LEMMA TotalWithOne ==
  ASSUME NEW S, IsFiniteSet(S), NEW z \in S, NEW k \in Nat, NEW f, NEW g,
         \A x \in S : f[x] \in Nat /\ g[x] \in Nat,
         \A x \in S : g[x] <= f[x] + (IF x = z THEN k ELSE 0)
  PROVE  Total(g, S) <= Total(f, S) + k
<1> DEFINE I == f[z] + 1 .. f[z] + k
           M == {z} \X I
           F == BytesOf(f, S)
           G == BytesOf(g, S)
<1>1. IsFiniteSet(M) /\ Cardinality(M) = k
  <2>1. IsFiniteSet({z}) /\ Cardinality({z}) = 1
    BY FS_Singleton
  <2>2. IsFiniteSet(I) /\ Cardinality(I) = k
    BY FS_Interval
  <2>3. IsFiniteSet(M) /\ Cardinality(M) = Cardinality({z}) * Cardinality(I)
    <3> HIDE DEF I
    <3> QED  BY <2>1, <2>2, FS_Product
  <2> QED  BY <2>1, <2>2, <2>3
<1>2. G \in SUBSET (F \cup M)
  <2> SUFFICES ASSUME NEW b \in G  PROVE b \in F \cup M
    OBVIOUS
  <2>1. PICK x \in S : \E n \in 1..g[x] : b = <<x, n>>
    BY BytesIn
  <2>2. PICK n \in 1..g[x] : b = <<x, n>>
    BY <2>1
  <2>3. CASE n <= f[x]
    BY <2>2, <2>3, BytesIn
  <2>4. CASE n > f[x]
    BY <2>2, <2>4
  <2> QED  BY <2>2, <2>3, <2>4
<1> HIDE DEF F, G, M
<1>3. IsFiniteSet(F) /\ IsFiniteSet(G) /\ Total(f, S) = Cardinality(F) /\ Total(g, S) = Cardinality(G)
  BY BytesFinite DEF F, G
<1>4. /\ IsFiniteSet(F \cup M)
      /\ Cardinality(F \cup M) = Cardinality(F) + Cardinality(M) - Cardinality(F \cap M)
  BY <1>1, <1>3, FS_Union
<1>5. Cardinality(F) \in Nat /\ Cardinality(F \cap M) \in Nat /\ Cardinality(G) \in Nat
  <2>1. IsFiniteSet(F \cap M)
    BY <1>3, FS_Intersection
  <2> QED  BY <2>1, <1>3, FS_CardinalityType
<1>6. Cardinality(G) <= Cardinality(F \cup M)
  BY <1>2, <1>4, FS_Subset
<1> QED  BY <1>1, <1>3, <1>4, <1>5, <1>6
-----------------------------------------------------------------------------
(***************************************************************************)
(* Ledgers in the order in which they are written.                         *)
(***************************************************************************)
Alike(a, b) ==   \* the same but for the pause
  /\ a.epoch = b.epoch /\ a.seen = b.seen
  /\ a.baseline = b.baseline /\ a.reservation = b.reservation

Before(a, b) ==
  /\ a.epoch <= b.epoch /\ a.seen \subseteq b.seen
  /\ a.epoch = b.epoch =>
       /\ a.baseline = b.baseline
       /\ \A j \in Jobs :
            /\ a.reservation[j] # "none" => b.reservation[j] # "none"
            /\ a.reservation[j] = "finished" => b.reservation[j] = "finished"

\* What a write is: of a reservation, of its end, or of a reconciliation.
Reserves(w, j) ==
  /\ w.want = Reserved(w.base, j)
  /\ ~w.base.paused /\ Work[j] \notin w.base.seen
Finishes(w, j) == w.want = Finished(w.base, j) /\ w.base.reservation[j] # "none"
Reconciles(w) ==
  /\ w.base.paused /\ w.base.epoch < MaxEpoch
  /\ w.want = [w.base EXCEPT !.baseline = w.want.baseline,
                             !.reservation = [j \in Jobs |-> "none"], !.epoch = @ + 1]
  /\ Peak(w.want) <= Limit

\* While the ledger that the operator read stands, nothing it was charged for moves.
Fenced(w) ==
  Alike(w.base, ledger) =>
    /\ \A j \in Jobs : ledger.reservation[j] # "none" => Quiet(j)
    /\ \A o \in Managed : stored[o] <= w.want.baseline[o]

-----------------------------------------------------------------------------
(***************************************************************************)
(* The inductive invariant.                                                *)
(***************************************************************************)
Starting == {"read", "measure", "write"}
Running == {"confirm", "guard", "weigh", "send", "finish", "close"}
Live(j) == step[j] \in Running \/ late[j] # "none"
Past(j) == step[j] \in Running \/ attempted[j] > 0

InPlan == \A j \in Jobs : step[j] \in {"finish", "close"} \cup Ended \/ pos[j] <= Len(Plan)

Holding ==
  \A j \in Jobs :
    /\ step[j] \in {"measure", "write"} => Reserves(held[j], j)
    /\ step[j] = "write" => Peak(held[j].want) <= Limit
    /\ step[j] = "close" => Finishes(held[j], j)

LostWrite(w) ==
  \/ \E j \in Jobs : /\ step[j] \in Ended
                     /\ (Reserves(w, j) /\ Peak(w.want) <= Limit) \/ Finishes(w, j)
  \/ Reconciles(w) /\ Before(w.base, ledger) /\ Fenced(w)
Underway ==
  /\ \A w \in writes : LostWrite(w)
  /\ op # NoWrite => Reconciles(op) /\ Before(op.base, ledger) /\ Fenced(op)

Reserving ==
  \A j \in Jobs :
    /\ Live(j) => ledger.reservation[j] # "none" /\ term[j] = ledger.epoch
    /\ step[j] \in Starting => /\ ledger.reservation[j] = "none" /\ late[j] = "none"
                               /\ attempted[j] = 0 /\ strays[j] = 0
    /\ Past(j) \/ ledger.reservation[j] # "none" => Work[j] \in ledger.seen
    /\ term[j] <= ledger.epoch

OneUploader == \A j, k \in Jobs : Past(j) /\ Past(k) /\ Work[j] = Work[k] => j = k

StraysEnd ==
  \A j \in Jobs :
    /\ strays[j] <= 1
    /\ strays[j] = 1 => /\ step[j] \in {"guard", "finish", "close"} \cup Ended
                        /\ step[j] = "guard" => ~Permitted(j)

\* What an attempt was charged for and has neither been stored nor lost.
Pending(j) ==
  (IF step[j] = "send" /\ Kind(j) # "delete" THEN 1 ELSE 0)
    + (IF late[j] # "none" THEN 1 ELSE 0)
Attempted == \A j \in Jobs : Pending(j) <= attempted[j]
Used == [j \in Jobs |-> attempted[j] - Pending(j)]
ReservedOf(o) == {j \in JobsOf(o) : ledger.reservation[j] # "none"}
Covered ==
  \A o \in Managed : stored[o] <= ledger.baseline[o] + Total(Used, ReservedOf(o))

\* The mutable keys outgrow their allocation by what races past its check.
Mutable == {"pointer", "status"}
MutableSends == {j \in Jobs : step[j] = "send" /\ Kind(j) \in Mutable}
MutableLate == {j \in Jobs : late[j] \in Mutable}
Racing ==
  stored[Shared] + Cardinality(MutableSends) + Cardinality(MutableLate)
    <= Ceiling[Shared] + 2 * Cardinality(Jobs)

AdmInv ==
  /\ AdmTypeOK /\ InPlan /\ Holding /\ Underway /\ Reserving /\ OneUploader /\ StraysEnd
  /\ Attempted /\ Covered /\ Racing /\ Peak(ledger) <= Limit

-----------------------------------------------------------------------------
(***************************************************************************)
(* The constants, the ledger and its writes.                               *)
(***************************************************************************)
\* What the assumptions say of each constant.
LEMMA AdmissionNumbers ==
  /\ IsFiniteSet(Jobs) /\ IsFiniteSet(Managed) /\ IsFiniteSet(Owners)
  /\ Limit \in Nat /\ Headroom \in Nat /\ Control \in Nat /\ MaxEpoch \in Nat
  /\ Attempts \in Nat \ {0} /\ Len(Plan) \in Nat \ {0}
  /\ \A o \in Owners : Ceiling[o] \in Nat \ {0} /\ Initial[o] \in Nat /\ Initial[o] <= Ceiling[o]
  /\ \A j \in Jobs : Size[j] \in Nat \ {0} /\ Owner[j] \in Managed /\ Owner[j] # Shared /\ Work[j] \in Works
  /\ \A p \in 1..Len(Plan) : Plan[p] \in {"data", "pointer", "delete", "status"}
<1>1. IsFiniteSet(Owners)
  BY FS_AddElement, AdmissionJobs DEF Owners
<1>2. Len(Plan) \in Nat \ {0}
  BY AdmissionJobs
<1>3. /\ Limit \in Nat /\ Headroom \in Nat /\ Control \in Nat /\ MaxEpoch \in Nat
      /\ Attempts \in Nat \ {0}
  BY AdmissionBytes
<1>4. \A o \in Owners : Ceiling[o] \in Nat \ {0} /\ Initial[o] \in Nat /\ Initial[o] <= Ceiling[o]
  BY AdmissionBytes
<1>5. \A j \in Jobs : Size[j] \in Nat \ {0} /\ Owner[j] \in Managed /\ Owner[j] # Shared /\ Work[j] \in Works
  BY AdmissionJobs
<1>6. \A p \in 1..Len(Plan) : Plan[p] \in {"data", "pointer", "delete", "status"}
  BY AdmissionJobs
<1> QED  BY <1>1, <1>2, <1>3, <1>4, <1>5, <1>6, AdmissionJobs

\* The fields of a ledger.
LEMMA LedgerFields ==
  ASSUME NEW doc \in Ledger
  PROVE  /\ doc.paused \in BOOLEAN /\ doc.epoch \in 0..MaxEpoch /\ doc.epoch \in Nat
         /\ doc.baseline \in [Managed -> Nat]
         /\ doc.reservation \in [Jobs -> {"none", "active", "finished"}]
         /\ doc.seen \in SUBSET Works
BY AdmissionNumbers DEF Ledger

\* What a reservation changes in a ledger.
LEMMA ReservedIs ==
  ASSUME NEW doc \in Ledger, NEW j \in Jobs
  PROVE  /\ Reserved(doc, j) \in Ledger
         /\ Reserved(doc, j).paused = doc.paused
         /\ Reserved(doc, j).epoch = doc.epoch
         /\ Reserved(doc, j).baseline = doc.baseline
         /\ Reserved(doc, j).seen = doc.seen \cup {Work[j]}
         /\ Reserved(doc, j).reservation = [doc.reservation EXCEPT ![j] = "active"]
<1>1. doc.seen \cup {Work[j]} \in SUBSET Works
  BY AdmissionNumbers, LedgerFields
<1> QED  BY <1>1 DEF Reserved, Ledger

\* What the end of a reservation changes in it.
LEMMA FinishedIs ==
  ASSUME NEW doc \in Ledger, NEW j \in Jobs
  PROVE  /\ Finished(doc, j) \in Ledger
         /\ Finished(doc, j).paused = doc.paused
         /\ Finished(doc, j).epoch = doc.epoch
         /\ Finished(doc, j).baseline = doc.baseline
         /\ Finished(doc, j).seen = doc.seen
         /\ Finished(doc, j).reservation = [doc.reservation EXCEPT ![j] = "finished"]
BY AdmissionNumbers DEF Finished, Ledger

\* What a reconciliation changes in it.
LEMMA ReconciledIs ==
  ASSUME NEW doc \in Ledger, NEW measured \in [Owners -> Nat], doc.epoch < MaxEpoch
  PROVE  /\ Reconciled(doc, measured) \in Ledger
         /\ Reconciled(doc, measured).paused = doc.paused
         /\ Reconciled(doc, measured).epoch = doc.epoch + 1
         /\ Reconciled(doc, measured).baseline = [o \in Managed |-> measured[o]]
         /\ Reconciled(doc, measured).seen = doc.seen
         /\ Reconciled(doc, measured).reservation = [j \in Jobs |-> "none"]
<1>1. [o \in Managed |-> measured[o]] \in [Managed -> Nat]
  BY DEF Owners
<1>2. doc.epoch + 1 \in 0..MaxEpoch
  BY LedgerFields, AdmissionNumbers
<1> QED  BY <1>1, <1>2, AdmissionNumbers DEF Reconciled, Ledger

\* What a pause, or its end, changes in it.
LEMMA PausedIs ==
  ASSUME NEW doc \in Ledger, NEW on \in BOOLEAN, NEW d, d = [doc EXCEPT !.paused = on]
  PROVE  /\ d \in Ledger /\ d.paused = on /\ d.epoch = doc.epoch /\ d.baseline = doc.baseline
         /\ d.seen = doc.seen /\ d.reservation = doc.reservation
BY DEF Ledger

\* What the reconciliation of a lost or pending write leaves.
LEMMA ReconcilesTo ==
  ASSUME NEW w \in Write, Reconciles(w)
  PROVE  /\ w.want \in Ledger /\ w.base \in Ledger /\ w.base.paused /\ w.want.paused
         /\ w.want.epoch = w.base.epoch + 1 /\ w.want.seen = w.base.seen
         /\ w.want.reservation = [j \in Jobs |-> "none"]
         /\ Peak(w.want) <= Limit
BY DEF Reconciles, Write, Ledger

\* A write is made of two ledgers.
LEMMA WriteIs ==
  ASSUME NEW base \in Ledger, NEW want \in Ledger
  PROVE  [base |-> base, want |-> want] \in Write
BY DEF Write

\* The provisioned ledger, and no write.
LEMMA NothingWritten == Provisioned \in Ledger /\ NoWrite \in Write
<1>1. [o \in Managed |-> Initial[o]] \in [Managed -> Nat]
  BY AdmissionNumbers DEF Owners
<1>2. Provisioned \in Ledger
  BY <1>1, AdmissionNumbers DEF Provisioned, Ledger
<1> QED  BY <1>2 DEF NoWrite, Write

-----------------------------------------------------------------------------
(***************************************************************************)
(* Charges.                                                                *)
(***************************************************************************)
\* An owner has finitely many jobs.
LEMMA JobsOfAreFinite ==
  ASSUME NEW o, NEW S \in SUBSET JobsOf(o)
  PROVE  IsFiniteSet(S) /\ S \subseteq Jobs
<1>1. S \in SUBSET Jobs
  BY DEF JobsOf
<1> QED  BY <1>1, AdmissionNumbers, FS_Subset

\* Debits and charges are natural numbers.
LEMMA DebitsAreNatural ==
  ASSUME NEW doc \in Ledger, NEW o \in Owners
  PROVE  Debits(doc, o) \in Nat /\ Charged(doc, o) \in Nat
<1> DEFINE S == {j \in JobsOf(o) : doc.reservation[j] # "none"}
<1>1. IsFiniteSet(S) /\ S \subseteq Jobs
  BY JobsOfAreFinite
<1>2. Total(Size, S) \in Nat
  BY <1>1, BytesFinite, AdmissionNumbers
<1>3. Debits(doc, o) \in Nat
  BY <1>2 DEF Debits
<1> QED  BY <1>3, AdmissionNumbers, LedgerFields DEF Charged, Owners

\* So is the peak.
LEMMA PeakIsNatural ==
  ASSUME NEW doc \in Ledger
  PROVE  Peak(doc) \in Nat
<1> DEFINE c == [o \in Owners |-> Charged(doc, o)]
<1>1. \A o \in Owners : c[o] \in Nat
  BY DebitsAreNatural
<1>2. Total(c, Owners) \in Nat
  BY <1>1, BytesFinite, AdmissionNumbers
<1> QED  BY <1>2, AdmissionNumbers DEF Peak

\* The charges are those of the baseline and of the jobs that reserve.
LEMMA SameCharges ==
  ASSUME NEW a \in Ledger, NEW b \in Ledger, a.baseline = b.baseline,
         \A j \in Jobs : a.reservation[j] # "none" <=> b.reservation[j] # "none"
  PROVE  (\A o \in Owners : Charged(a, o) = Charged(b, o)) /\ Peak(a) = Peak(b)
<1>1. \A o \in Owners : Debits(a, o) = Debits(b, o)
  <2> TAKE o \in Owners
  <2>1. {j \in JobsOf(o) : a.reservation[j] # "none"} = {j \in JobsOf(o) : b.reservation[j] # "none"}
    BY DEF JobsOf
  <2> QED  BY <2>1 DEF Debits
<1>2. \A o \in Owners : Charged(a, o) = Charged(b, o)
  BY <1>1 DEF Charged
<1>3. [o \in Owners |-> Charged(a, o)] = [o \in Owners |-> Charged(b, o)]
  BY <1>2
<1> QED  BY <1>2, <1>3 DEF Peak

\* More reservations are charged more.
LEMMA ReservingCharges ==
  ASSUME NEW a \in Ledger, NEW b \in Ledger, a.baseline = b.baseline,
         \A j \in Jobs : a.reservation[j] # "none" => b.reservation[j] # "none", NEW o \in Owners
  PROVE  Charged(a, o) <= Charged(b, o)
<1> DEFINE A == {j \in JobsOf(o) : a.reservation[j] # "none"}
           B == {j \in JobsOf(o) : b.reservation[j] # "none"}
<1>1. A \in SUBSET B
  BY DEF JobsOf
<1>2. IsFiniteSet(B) /\ A \subseteq Jobs /\ B \subseteq Jobs
  BY JobsOfAreFinite
<1>3. Total(Size, A) <= Total(Size, B)
  <2>1. \A j \in Jobs : Size[j] \in Nat /\ Size[j] <= Size[j]
    BY AdmissionNumbers
  <2> HIDE DEF A, B
  <2> QED  BY <1>1, <1>2, <2>1, TotalAtMost
<1>4. Debits(a, o) <= Debits(b, o)
  BY <1>3 DEF Debits
<1> QED  BY <1>4, DebitsAreNatural, LedgerFields, AdmissionNumbers DEF Charged, Owners

-----------------------------------------------------------------------------
(***************************************************************************)
(* What the steps of a job leave typed.                                    *)
(***************************************************************************)
\* A step of a job goes to one of its steps.
LEMMA Moves ==
  ASSUME AdmTypeOK, NEW j \in Jobs, NEW s, Goto(j, s)
  PROVE  /\ s \in Steps => step' \in [Jobs -> Steps]
         /\ {"read", "measure", "write", "confirm", "guard", "weigh", "send", "finish", "close",
              "ok", "stopped"} = Steps
BY DEF AdmTypeOK, Goto, Steps, Ended

\* A job that forgets what it held holds nothing.
LEMMA Forgets ==
  ASSUME AdmTypeOK, NEW j \in Jobs, Forget(j)
  PROVE  held' \in [Jobs -> Write] /\ tries' \in [Jobs -> 1..Attempts]
BY NothingWritten, AdmissionNumbers DEF AdmTypeOK, Forget

\* A job that ends has forgotten it, too.
LEMMA Ends ==
  ASSUME AdmTypeOK, NEW j \in Jobs, End(j)
  PROVE  /\ step' \in [Jobs -> Steps]
         /\ held' \in [Jobs -> Write] /\ tries' \in [Jobs -> 1..Attempts]
BY Moves, Forgets DEF End

\* A job holds a write.
LEMMA Holds ==
  ASSUME AdmTypeOK, NEW j \in Jobs, NEW base \in Ledger, NEW want \in Ledger, Hold(j, base, want)
  PROVE  held' \in [Jobs -> Write]
BY WriteIs DEF AdmTypeOK, Hold

\* An attempt is charged within the size of the reservation.
LEMMA Charges ==
  ASSUME AdmTypeOK, NEW j \in Jobs, Charge(j)
  PROVE  /\ step' \in [Jobs -> Steps]
         /\ held' \in [Jobs -> Write] /\ tries' \in [Jobs -> 1..Attempts]
         /\ attempted' \in [Jobs -> Nat] /\ \A k \in Jobs : attempted'[k] <= Size[k]
<1>1. step' \in [Jobs -> Steps]
  BY Moves, Ends DEF Charge
<1>2. held' \in [Jobs -> Write] /\ tries' \in [Jobs -> 1..Attempts]
  BY Ends, NothingWritten DEF Charge, AdmTypeOK
<1>3. attempted' \in [Jobs -> Nat] /\ \A k \in Jobs : attempted'[k] <= Size[k]
  <2>1. attempted \in [Jobs -> Nat] /\ \A k \in Jobs : attempted[k] <= Size[k] /\ Size[k] \in Nat
    BY AdmissionNumbers DEF AdmTypeOK
  <2>2. \/ attempted' = attempted
        \/ attempted' = [attempted EXCEPT ![j] = @ + 1] /\ attempted[j] + 1 <= Size[j]
    BY DEF Charge, Allowed
  <2> QED  BY <2>1, <2>2
<1> QED  BY <1>1, <1>2, <1>3

\* A job that has sent goes on in its plan.
LEMMA Advances ==
  ASSUME AdmTypeOK, NEW j \in Jobs, pos[j] <= Len(Plan), Advance(j)
  PROVE  step' \in [Jobs -> Steps] /\ pos' \in [Jobs -> 1..Len(Plan) + 1]
<1>1. step' \in [Jobs -> Steps]
  BY Moves DEF Advance
<1>2. pos[j] + 1 \in 1..Len(Plan) + 1
  BY AdmissionNumbers DEF AdmTypeOK
<1> QED  BY <1>1, <1>2 DEF Advance, AdmTypeOK

\* Jobs are of owners, and the mutable keys have one.
LEMMA OwnersOfJobs == Shared \in Owners /\ \A j \in Jobs : Owner[j] \in Owners
BY AdmissionNumbers DEF Owners

\* A delete leaves natural numbers of bytes.
LEMMA Deletes ==
  ASSUME AdmTypeOK, NEW j \in Jobs, SendDelete(j)
  PROVE  stored' \in [Owners -> Nat]
<1>1. stored \in [Owners -> Nat] /\ Owner[j] \in Owners
  BY OwnersOfJobs DEF AdmTypeOK
<1>2. \/ stored' = stored
      \/ stored[Owner[j]] > 0 /\ stored' = [stored EXCEPT ![Owner[j]] = @ - 1]
  BY DEF SendDelete
<1> QED  BY <1>1, <1>2

\* A job in its plan is about to send a thing of one of the kinds.
LEMMA KindIs ==
  ASSUME AdmTypeOK, NEW j \in Jobs, pos[j] <= Len(Plan)
  PROVE  Kind(j) \in {"data", "pointer", "delete", "status"}
<1>1. pos[j] \in 1..Len(Plan)
  BY AdmissionNumbers DEF AdmTypeOK
<1> QED  BY <1>1, AdmissionNumbers DEF Kind

\* So does an upload.
LEMMA Uploads ==
  ASSUME AdmTypeOK, NEW j \in Jobs, NEW kind, NEW size \in 0..1, Upload(j, kind, size)
  PROVE  stored' \in [Owners -> Nat]
BY OwnersOfJobs DEF AdmTypeOK, Upload

\* Every step leaves the state typed.
LEMMA TypeKept ==
  ASSUME AdmTypeOK, InPlan, AdmNext
  PROVE  AdmTypeOK'
<1> USE DEF AdmTypeOK, InPlan, Ended
<1>1. ASSUME NEW j \in Jobs, Read(j)  PROVE AdmTypeOK'
  <2>1. step' \in [Jobs -> Steps] /\ held' \in [Jobs -> Write] /\ tries' \in [Jobs -> 1..Attempts]
    BY <1>1, Moves, Ends, Forgets, Holds, ReservedIs DEF Read
  <2> QED  BY <2>1, <1>1 DEF Read, StoreVars
<1>2. ASSUME NEW j \in Jobs, Measure(j)  PROVE AdmTypeOK'
  <2>1. step' \in [Jobs -> Steps] /\ held' \in [Jobs -> Write] /\ tries' \in [Jobs -> 1..Attempts]
    BY <1>2, Moves, Ends, Forgets DEF Measure
  <2> QED  BY <2>1, <1>2 DEF Measure, StoreVars
<1>3. ASSUME NEW j \in Jobs, Written(j)  PROVE AdmTypeOK'
  <2>1. step' \in [Jobs -> Steps] /\ held' \in [Jobs -> Write] /\ tries' \in [Jobs -> 1..Attempts]
    BY <1>3, Moves, Ends, Forgets DEF Written
  <2>2. ledger' \in Ledger
    BY <1>3 DEF Written, Write
  <2>3. held[j].base.epoch \in 0..MaxEpoch
    BY LedgerFields DEF Write
  <2>4. term' \in [Jobs -> 0..MaxEpoch]
    BY <1>3, <2>3 DEF Written
  <2> QED  BY <2>1, <2>2, <2>4, <1>3 DEF Written, StoreVars
<1>4. ASSUME NEW j \in Jobs, Refused(j)  PROVE AdmTypeOK'
  <2>1. step' \in [Jobs -> Steps]
    BY <1>4, Moves, Ends DEF Refused
  <2>2. held' \in [Jobs -> Write] /\ tries' \in [Jobs -> 1..Attempts]
    <3>1. CASE End(j)
      BY <3>1, Ends
    <3>2. CASE tries[j] < Attempts
      <4>1. tries[j] + 1 \in 1..Attempts
        BY <3>2, AdmissionNumbers
      <4> QED  BY <1>4, <3>2, <4>1, NothingWritten DEF Refused
    <3> QED  BY <3>1, <3>2, <1>4 DEF Refused
  <2> QED  BY <2>1, <2>2, <1>4 DEF Refused, StoreVars
<1>5. ASSUME NEW j \in Jobs, Confirm(j)  PROVE AdmTypeOK'
  <2>1. step' \in [Jobs -> Steps] /\ held' \in [Jobs -> Write] /\ tries' \in [Jobs -> 1..Attempts]
    BY <1>5, Moves, Ends, Forgets DEF Confirm
  <2> QED  BY <2>1, <1>5 DEF Confirm, StoreVars
<1>6. ASSUME NEW j \in Jobs, Guard(j)  PROVE AdmTypeOK'
  <2>1. step' \in [Jobs -> Steps] /\ held' \in [Jobs -> Write] /\ tries' \in [Jobs -> 1..Attempts]
    BY <1>6, Moves, Ends, Forgets, Holds, Charges DEF Guard
  <2>2. attempted' \in [Jobs -> Nat] /\ \A k \in Jobs : attempted'[k] <= Size[k]
    BY <1>6, Charges DEF Guard
  <2> QED  BY <2>1, <2>2, <1>6 DEF Guard, StoreVars
<1>7. ASSUME NEW j \in Jobs, Weigh(j)  PROVE AdmTypeOK'
  <2>1. step' \in [Jobs -> Steps] /\ held' \in [Jobs -> Write] /\ tries' \in [Jobs -> 1..Attempts]
    BY <1>7, Moves, Ends, Forgets, Charges DEF Weigh
  <2>2. attempted' \in [Jobs -> Nat] /\ \A k \in Jobs : attempted'[k] <= Size[k]
    BY <1>7, Charges DEF Weigh
  <2> QED  BY <2>1, <2>2, <1>7 DEF Weigh, StoreVars
<1>8. ASSUME NEW j \in Jobs, SendUpload(j)  PROVE AdmTypeOK'
  <2>1. step' \in [Jobs -> Steps] /\ pos' \in [Jobs -> 1..Len(Plan) + 1]
    BY <1>8, Moves, Advances DEF SendUpload
  <2>2. strays' \in [Jobs -> Nat]
    BY <1>8 DEF SendUpload, Stray
  <2>3. stored' \in [Owners -> Nat]
    BY <1>8, Uploads DEF SendUpload
  <2>4. late' \in [Jobs -> {"none", "data", "pointer", "status"}]
    BY <1>8 DEF SendUpload
  <2> QED  BY <2>1, <2>2, <2>3, <2>4, <1>8 DEF SendUpload
<1>9. ASSUME NEW j \in Jobs, SendAgain(j)  PROVE AdmTypeOK'
  <2>1. step' \in [Jobs -> Steps]
    BY <1>9, Moves DEF SendAgain
  <2>2. strays' \in [Jobs -> Nat]
    BY <1>9 DEF SendAgain, Stray
  <2>3. late' \in [Jobs -> {"none", "data", "pointer", "status"}]
    BY <1>9 DEF SendAgain
  <2> QED  BY <2>1, <2>2, <2>3, <1>9 DEF SendAgain
<1>10. ASSUME NEW j \in Jobs, SendDelete(j)  PROVE AdmTypeOK'
  <2>1. step' \in [Jobs -> Steps] /\ pos' \in [Jobs -> 1..Len(Plan) + 1]
    BY <1>10, Moves, Advances DEF SendDelete
  <2>2. strays' \in [Jobs -> Nat]
    BY <1>10 DEF SendDelete, Stray
  <2>3. stored' \in [Owners -> Nat]
    BY <1>10, Deletes DEF SendDelete
  <2> QED  BY <2>1, <2>2, <2>3, <1>10 DEF SendDelete
<1>11. ASSUME NEW j \in Jobs, Finish(j)  PROVE AdmTypeOK'
  <2>1. step' \in [Jobs -> Steps] /\ held' \in [Jobs -> Write] /\ tries' \in [Jobs -> 1..Attempts]
    BY <1>11, Moves, Ends, Forgets, Holds, FinishedIs DEF Finish
  <2> QED  BY <2>1, <1>11 DEF Finish, StoreVars
<1>12. ASSUME NEW j \in Jobs, Stop(j)  PROVE AdmTypeOK'
  <2>1. step' \in [Jobs -> Steps] /\ held' \in [Jobs -> Write] /\ tries' \in [Jobs -> 1..Attempts]
    BY <1>12, Moves, Ends, Forgets DEF Stop
  <2>2. strays' \in [Jobs -> Nat]
    <3>1. strays' = strays \/ Stray(j)
      BY <1>12 DEF Stop
    <3>2. CASE Stray(j)
      BY <3>2 DEF Stray
    <3> QED  BY <3>1, <3>2
  <2>3. writes' \subseteq Write
    BY <1>12 DEF Stop
  <2>4. Kind(j) # "delete" /\ step[j] = "send" => Kind(j) \in {"data", "pointer", "status"}
    BY KindIs
  <2>5. late' \in [Jobs -> {"none", "data", "pointer", "status"}]
    BY <1>12, <2>4 DEF Stop
  <2> QED  BY <2>1, <2>2, <2>3, <2>5, <1>12 DEF Stop
<1>13. ASSUME NEW j \in Jobs, Expire(j)  PROVE AdmTypeOK'
  BY <1>13 DEF Expire, jobVars, StoreVars
<1>14. ASSUME NEW j \in Jobs, LateUpload(j)  PROVE AdmTypeOK'
  <2>1. stored' \in [Owners -> Nat]
    BY <1>14, Uploads DEF LateUpload
  <2> QED  BY <2>1, <1>14 DEF LateUpload, jobVars
<1>15. ASSUME NEW on \in BOOLEAN, SetPaused(on)  PROVE AdmTypeOK'
  <2>1. ledger' \in Ledger
    BY <1>15, PausedIs DEF SetPaused
  <2> QED  BY <2>1, <1>15 DEF SetPaused, jobVars
<1>16. ASSUME Reconcile  PROVE AdmTypeOK'
  <2>1. op' \in Write
    <3>1. Reconciled(ledger, stored) \in Ledger
      BY <1>16, ReconciledIs DEF Reconcile
    <3> QED  BY <3>1, <1>16, WriteIs DEF Reconcile, Inventory
  <2> QED  BY <2>1, <1>16 DEF Reconcile, jobVars, StoreVars
<1>17. ASSUME ReconcileWritten  PROVE AdmTypeOK'
  <2>1. ledger' \in Ledger
    BY <1>17 DEF ReconcileWritten, Write
  <2> QED  BY <2>1, <1>17, NothingWritten DEF ReconcileWritten, jobVars, StoreVars
<1>18. ASSUME ReconcileFails  PROVE AdmTypeOK'
  BY <1>18, NothingWritten DEF ReconcileFails, jobVars, StoreVars
<1>19. ASSUME NEW w \in writes, LateWrite(w)  PROVE AdmTypeOK'
  <2>1. ledger' \in Ledger
    BY <1>19 DEF LateWrite, Write
  <2> QED  BY <2>1, <1>19 DEF LateWrite, jobVars, StoreVars
<1> QED  BY <1>1, <1>2, <1>3, <1>4, <1>5, <1>6, <1>7, <1>8, <1>9, <1>10, <1>11, <1>12, <1>13,
            <1>14, <1>15, <1>16, <1>17, <1>18, <1>19 DEF AdmNext, JobStep

\* A job that has not sent everything has something to send.
LEMMA InPlanKept ==
  ASSUME AdmTypeOK, InPlan, AdmNext
  PROVE  InPlan'
<1>0. /\ step \in [Jobs -> Steps] /\ pos \in [Jobs -> 1..Len(Plan) + 1]
      /\ Len(Plan) \in Nat
  BY AdmissionNumbers DEF AdmTypeOK
<1> USE DEF InPlan, Ended
<1>1. ASSUME NEW j \in Jobs, Read(j)  PROVE InPlan'
  BY <1>1, <1>0 DEF Read, Admissible, Goto, Hold, End, Forget, StoreVars
<1>2. ASSUME NEW j \in Jobs, Measure(j)  PROVE InPlan'
  BY <1>2, <1>0 DEF Measure, Goto, End, Forget, StoreVars
<1>3. ASSUME NEW j \in Jobs, Written(j)  PROVE InPlan'
  BY <1>3, <1>0 DEF Written, Goto, Forget, Current, StoreVars
<1>4. ASSUME NEW j \in Jobs, Refused(j)  PROVE InPlan'
  BY <1>4, <1>0 DEF Refused, Goto, End, Forget, Current, StoreVars
<1>5. ASSUME NEW j \in Jobs, Confirm(j)  PROVE InPlan'
  BY <1>5, <1>0 DEF Confirm, Goto, End, Forget, StoreVars
<1>6. ASSUME NEW j \in Jobs, Guard(j)  PROVE InPlan'
  BY <1>6, <1>0 DEF Guard, Charge, Allowed, Goto, Hold, End, Forget, StoreVars
<1>7. ASSUME NEW j \in Jobs, Weigh(j)  PROVE InPlan'
  BY <1>7, <1>0 DEF Weigh, Charge, Allowed, Goto, End, Forget, StoreVars
<1>8. ASSUME NEW j \in Jobs, SendUpload(j)  PROVE InPlan'
  BY <1>8, <1>0 DEF SendUpload, Upload, Stray, Advance, Goto
<1>9. ASSUME NEW j \in Jobs, SendAgain(j)  PROVE InPlan'
  BY <1>9, <1>0 DEF SendAgain, Stray, Goto
<1>10. ASSUME NEW j \in Jobs, SendDelete(j)  PROVE InPlan'
  BY <1>10, <1>0 DEF SendDelete, Stray, Advance, Goto
<1>11. ASSUME NEW j \in Jobs, Finish(j)  PROVE InPlan'
  BY <1>11, <1>0 DEF Finish, Goto, Hold, End, Forget, StoreVars
<1>12. ASSUME NEW j \in Jobs, Stop(j)  PROVE InPlan'
  BY <1>12, <1>0 DEF Stop, Stray, Goto, End, Forget
<1>13. ASSUME NEW j \in Jobs, Expire(j)  PROVE InPlan'
  BY <1>13 DEF Expire, jobVars, StoreVars
<1>14. ASSUME NEW j \in Jobs, LateUpload(j)  PROVE InPlan'
  BY <1>14 DEF LateUpload, jobVars, StoreVars
<1>15. ASSUME NEW on \in BOOLEAN, SetPaused(on)  PROVE InPlan'
  BY <1>15 DEF SetPaused, jobVars, StoreVars
<1>16. ASSUME Reconcile  PROVE InPlan'
  BY <1>16 DEF Reconcile, jobVars, StoreVars
<1>17. ASSUME ReconcileWritten  PROVE InPlan'
  BY <1>17 DEF ReconcileWritten, jobVars, StoreVars
<1>18. ASSUME ReconcileFails  PROVE InPlan'
  BY <1>18 DEF ReconcileFails, jobVars, StoreVars
<1>19. ASSUME NEW w \in writes, LateWrite(w)  PROVE InPlan'
  BY <1>19 DEF LateWrite, jobVars, StoreVars
<1> QED  BY <1>1, <1>2, <1>3, <1>4, <1>5, <1>6, <1>7, <1>8, <1>9, <1>10, <1>11, <1>12, <1>13,
            <1>14, <1>15, <1>16, <1>17, <1>18, <1>19 DEF AdmNext, JobStep

\* What a job holds is the reservation, or the end, that it is about to write.
LEMMA HoldingKept ==
  ASSUME AdmTypeOK, Holding, AdmNext
  PROVE  Holding'
<1>0. /\ step \in [Jobs -> Steps] /\ held \in [Jobs -> Write] /\ tries \in [Jobs -> 1..Attempts]
      /\ ledger \in Ledger
  BY AdmissionNumbers DEF AdmTypeOK
<1> USE DEF Holding, Ended
<1>1. ASSUME NEW j \in Jobs, Read(j)  PROVE Holding'
  BY <1>0, <1>1 DEF Read, Admissible, Goto, Hold, End, Forget, Reserves
<1>2. ASSUME NEW j \in Jobs, Measure(j)  PROVE Holding'
  BY <1>0, <1>2 DEF Measure, Goto, End, Forget, Envelope
<1>3. ASSUME NEW j \in Jobs, Written(j)  PROVE Holding'
  BY <1>3, <1>0 DEF Written, Goto, Forget, Current, StoreVars
<1>4. ASSUME NEW j \in Jobs, Refused(j)  PROVE Holding'
  BY <1>4, <1>0 DEF Refused, Goto, End, Forget, Current, StoreVars
<1>5. ASSUME NEW j \in Jobs, Confirm(j)  PROVE Holding'
  BY <1>5, <1>0 DEF Confirm, Goto, End, Forget, StoreVars
<1>6. ASSUME NEW j \in Jobs, Guard(j)  PROVE Holding'
  BY <1>6, <1>0 DEF Guard, Charge, Allowed, Goto, Hold, End, Forget, StoreVars
<1>7. ASSUME NEW j \in Jobs, Weigh(j)  PROVE Holding'
  BY <1>7, <1>0 DEF Weigh, Charge, Allowed, Goto, End, Forget, StoreVars
<1>8. ASSUME NEW j \in Jobs, SendUpload(j)  PROVE Holding'
  BY <1>0, <1>8 DEF SendUpload, Advance, Goto
<1>9. ASSUME NEW j \in Jobs, SendAgain(j)  PROVE Holding'
  BY <1>0, <1>9 DEF SendAgain, Advance, Goto
<1>10. ASSUME NEW j \in Jobs, SendDelete(j)  PROVE Holding'
  BY <1>0, <1>10 DEF SendDelete, Advance, Goto
<1>11. ASSUME NEW j \in Jobs, Finish(j)  PROVE Holding'
  BY <1>0, <1>11 DEF Finish, Admissible, Goto, Hold, End, Forget, Finishes
<1>12. ASSUME NEW j \in Jobs, Stop(j)  PROVE Holding'
  BY <1>12, <1>0 DEF Stop, Stray, Goto, End, Forget
<1>13. ASSUME NEW j \in Jobs, Expire(j)  PROVE Holding'
  BY <1>13 DEF Expire, jobVars, StoreVars
<1>14. ASSUME NEW j \in Jobs, LateUpload(j)  PROVE Holding'
  BY <1>14 DEF LateUpload, jobVars, StoreVars
<1>15. ASSUME NEW on \in BOOLEAN, SetPaused(on)  PROVE Holding'
  BY <1>15 DEF SetPaused, jobVars, StoreVars
<1>16. ASSUME Reconcile  PROVE Holding'
  BY <1>16 DEF Reconcile, jobVars, StoreVars
<1>17. ASSUME ReconcileWritten  PROVE Holding'
  BY <1>17 DEF ReconcileWritten, jobVars, StoreVars
<1>18. ASSUME ReconcileFails  PROVE Holding'
  BY <1>18 DEF ReconcileFails, jobVars, StoreVars
<1>19. ASSUME NEW w \in writes, LateWrite(w)  PROVE Holding'
  BY <1>19 DEF LateWrite, jobVars, StoreVars
<1> QED  BY <1>1, <1>2, <1>3, <1>4, <1>5, <1>6, <1>7, <1>8, <1>9, <1>10, <1>11, <1>12, <1>13,
            <1>14, <1>15, <1>16, <1>17, <1>18, <1>19 DEF AdmNext, JobStep

-----------------------------------------------------------------------------
(***************************************************************************)
(* What is reserved, and for whom.                                         *)
(***************************************************************************)
\* A reconciliation that takes effect finds no job that could send anything.
LEMMA FenceHolds ==
  ASSUME Reserving, NEW w, w.base = ledger, Fenced(w)
  PROVE  /\ \A j \in Jobs : ~Live(j) /\ (ledger.reservation[j] # "none" => Quiet(j))
         /\ \A o \in Managed : stored[o] <= w.want.baseline[o]
<1>1. Alike(w.base, ledger)
  BY DEF Alike
<1>2. \A j \in Jobs : ledger.reservation[j] # "none" => Quiet(j)
  BY <1>1 DEF Fenced
<1>3. \A j \in Jobs : Quiet(j) => ~Live(j)
  BY DEF Quiet, Live, Ended, Running
<1> QED  BY <1>1, <1>2, <1>3 DEF Fenced, Reserving

\* What a lost write does to the ledger, if anything.
LEMMA LateWriteMoves ==
  ASSUME AdmTypeOK, Underway, NEW w \in writes, LateWrite(w)
  PROVE  \/ ledger' = ledger
         \/ /\ w.base = ledger /\ ledger' = w.want
            /\ \/ \E j \in Jobs :
                    step[j] \in Ended /\ ((Reserves(w, j) /\ Peak(w.want) <= Limit) \/ Finishes(w, j))
               \/ Reconciles(w) /\ Before(w.base, ledger) /\ Fenced(w)
BY DEF LateWrite, Current, Underway, LostWrite

\* A reservation, seen from every job.
LEMMA ReservingByReserve ==
  ASSUME AdmTypeOK, Reserving, NEW j \in Jobs, ledger' = Reserved(ledger, j)
  PROVE  \A k \in Jobs :
           /\ ledger'.reservation[k] = IF k = j THEN "active" ELSE ledger.reservation[k]
           /\ ledger'.epoch = ledger.epoch /\ ledger'.epoch \in Nat
           /\ (Work[k] \in ledger.seen \/ k = j) => Work[k] \in ledger'.seen
<1>1. ledger \in Ledger
  BY DEF AdmTypeOK
<1>2. ledger.epoch \in Nat /\ ledger.reservation \in [Jobs -> {"none", "active", "finished"}]
  BY <1>1, LedgerFields
<1>3. ledger'.seen = ledger.seen \cup {Work[j]} /\ ledger'.epoch = ledger.epoch
  BY <1>1, ReservedIs
<1>4. ledger'.reservation = [ledger.reservation EXCEPT ![j] = "active"]
  BY <1>1, ReservedIs
<1> QED  BY <1>2, <1>3, <1>4

\* The end of a reservation, seen from every job.
LEMMA ReservingByFinish ==
  ASSUME AdmTypeOK, Reserving, NEW j \in Jobs, ledger' = Finished(ledger, j)
  PROVE  \A k \in Jobs :
           /\ ledger'.reservation[k] = IF k = j THEN "finished" ELSE ledger.reservation[k]
           /\ ledger'.epoch = ledger.epoch /\ ledger'.epoch \in Nat
           /\ Work[k] \in ledger.seen => Work[k] \in ledger'.seen
<1>1. ledger \in Ledger
  BY DEF AdmTypeOK
<1>2. ledger.epoch \in Nat /\ ledger.reservation \in [Jobs -> {"none", "active", "finished"}]
  BY <1>1, LedgerFields
<1> QED  BY <1>1, <1>2, FinishedIs

\* A reconciliation takes the reservations of jobs that are all at rest.
LEMMA ReservingReconciled ==
  ASSUME AdmTypeOK, Reserving, NEW w \in Write, w.base = ledger, Reconciles(w), Fenced(w),
         ledger' = w.want, UNCHANGED <<step, late, attempted, strays, term>>
  PROVE  Reserving'
<1>1. \A j \in Jobs : ~Live(j)
  BY FenceHolds
<1>2. /\ \A j \in Jobs : ledger'.reservation[j] = "none"
      /\ ledger'.epoch = ledger.epoch + 1 /\ ledger'.seen = ledger.seen
  BY ReconcilesTo
<1>3. \A j \in Jobs : term[j] \in Nat /\ ledger.epoch \in Nat
  BY LedgerFields, AdmissionNumbers DEF AdmTypeOK
<1> QED  BY <1>1, <1>2, <1>3 DEF Reserving, Live, Past, Starting, Running

\* A job that runs, or has an upload on its way, has a reservation of this epoch; its
\* work has been seen.
LEMMA ReservingKept ==
  ASSUME AdmTypeOK, Holding, Underway, Reserving, AdmNext
  PROVE  Reserving'
<1>0. /\ step \in [Jobs -> Steps] /\ held \in [Jobs -> Write]
      /\ late \in [Jobs -> {"none", "data", "pointer", "status"}]
      /\ attempted \in [Jobs -> Nat] /\ strays \in [Jobs -> Nat]
      /\ term \in [Jobs -> 0..MaxEpoch] /\ ledger \in Ledger
  BY DEF AdmTypeOK
<1> USE DEF Reserving, Live, Past, Starting, Running, Ended
<1>1. ASSUME NEW j \in Jobs, Read(j)  PROVE Reserving'
  BY <1>1, <1>0 DEF Read, Admissible, Goto, Hold, End, Forget, StoreVars
<1>2. ASSUME NEW j \in Jobs, Measure(j)  PROVE Reserving'
  BY <1>2, <1>0 DEF Measure, Goto, End, Forget, StoreVars
<1>3. ASSUME NEW j \in Jobs, Written(j)  PROVE Reserving'
  <2>1. CASE step[j] = "write"
    <3>1. ledger' = Reserved(ledger, j) /\ held[j].base = ledger
      BY <1>3, <2>1 DEF Written, Current, Holding, Reserves
    <3>2. step' = [step EXCEPT ![j] = "confirm"] /\ term' = [term EXCEPT ![j] = ledger.epoch]
      BY <1>3, <2>1, <3>1 DEF Written, Goto
    <3> QED  BY <1>0, <1>3, <3>1, <3>2, ReservingByReserve, LedgerFields DEF Written, StoreVars
  <2>2. CASE step[j] = "close"
    <3>1. ledger' = Finished(ledger, j)
      BY <1>3, <2>2 DEF Written, Current, Holding, Finishes
    <3>2. step' = [step EXCEPT ![j] = "ok"] /\ term' = term
      BY <1>0, <1>3, <2>2 DEF Written, Goto
    <3> QED  BY <1>0, <1>3, <2>2, <3>1, <3>2, ReservingByFinish DEF Written, StoreVars
  <2> QED  BY <1>3, <2>1, <2>2 DEF Written
<1>4. ASSUME NEW j \in Jobs, Refused(j)  PROVE Reserving'
  BY <1>4, <1>0 DEF Refused, Goto, End, Forget, Current, StoreVars
<1>5. ASSUME NEW j \in Jobs, Confirm(j)  PROVE Reserving'
  BY <1>5, <1>0 DEF Confirm, Goto, End, Forget, StoreVars
<1>6. ASSUME NEW j \in Jobs, Guard(j)  PROVE Reserving'
  BY <1>6, <1>0 DEF Guard, Charge, Allowed, Goto, Hold, End, Forget, StoreVars
<1>7. ASSUME NEW j \in Jobs, Weigh(j)  PROVE Reserving'
  BY <1>7, <1>0 DEF Weigh, Charge, Allowed, Goto, End, Forget, StoreVars
<1>8. ASSUME NEW j \in Jobs, SendUpload(j)  PROVE Reserving'
  BY <1>8, <1>0 DEF SendUpload, Upload, Stray, Advance, Goto
<1>9. ASSUME NEW j \in Jobs, SendAgain(j)  PROVE Reserving'
  BY <1>9, <1>0 DEF SendAgain, Stray, Goto
<1>10. ASSUME NEW j \in Jobs, SendDelete(j)  PROVE Reserving'
  BY <1>10, <1>0 DEF SendDelete, Stray, Advance, Goto
<1>11. ASSUME NEW j \in Jobs, Finish(j)  PROVE Reserving'
  BY <1>11, <1>0 DEF Finish, Goto, Hold, End, Forget, StoreVars
<1>12. ASSUME NEW j \in Jobs, Stop(j)  PROVE Reserving'
  BY <1>12, <1>0 DEF Stop, Stray, Goto, End, Forget
<1>13. ASSUME NEW j \in Jobs, Expire(j)  PROVE Reserving'
  BY <1>13, <1>0 DEF Expire, jobVars, StoreVars
<1>14. ASSUME NEW j \in Jobs, LateUpload(j)  PROVE Reserving'
  BY <1>14, <1>0 DEF LateUpload, Upload, jobVars
<1>15. ASSUME NEW on \in BOOLEAN, SetPaused(on)  PROVE Reserving'
  BY <1>0, <1>15, PausedIs DEF SetPaused, jobVars
<1>16. ASSUME Reconcile  PROVE Reserving'
  BY <1>16, <1>0 DEF Reconcile, jobVars, StoreVars
<1>17. ASSUME ReconcileWritten  PROVE Reserving'
  BY <1>17, ReservingReconciled DEF ReconcileWritten, Current, Underway, AdmTypeOK, jobVars,
     StoreVars
<1>18. ASSUME ReconcileFails  PROVE Reserving'
  BY <1>18, <1>0 DEF ReconcileFails, Current, jobVars, StoreVars
<1>19. ASSUME NEW w \in writes, LateWrite(w)  PROVE Reserving'
  <2>1. UNCHANGED <<step, late, attempted, strays, term>>
    BY <1>19 DEF LateWrite, jobVars, StoreVars
  <2>2. CASE ledger' = ledger
    BY <2>1, <2>2
  <2>3. ASSUME NEW j \in Jobs, step[j] \in Ended, ledger' = Reserved(ledger, j)  PROVE Reserving'
    BY <1>0, <2>1, <2>3, ReservingByReserve
  <2>4. ASSUME NEW j \in Jobs, ledger.reservation[j] # "none", ledger' = Finished(ledger, j)  PROVE Reserving'
    BY <1>0, <2>1, <2>4, ReservingByFinish
  <2>5. CASE w.base = ledger /\ ledger' = w.want /\ Reconciles(w) /\ Fenced(w)
    BY <2>1, <2>5, ReservingReconciled DEF AdmTypeOK
  <2> QED  BY <1>19, <2>2, <2>3, <2>4, <2>5, LateWriteMoves DEF Reserves, Finishes
<1> QED  BY <1>1, <1>2, <1>3, <1>4, <1>5, <1>6, <1>7, <1>8, <1>9, <1>10, <1>11, <1>12, <1>13,
            <1>14, <1>15, <1>16, <1>17, <1>18, <1>19 DEF AdmNext, JobStep

\* Of the jobs of one work, one gets past its reservation: the ledger has seen the work.
LEMMA OneUploaderKept ==
  ASSUME AdmTypeOK, Holding, Reserving, OneUploader, AdmNext
  PROVE  OneUploader'
<1>0. /\ step \in [Jobs -> Steps] /\ held \in [Jobs -> Write] /\ attempted \in [Jobs -> Nat]
      /\ ledger \in Ledger
  BY DEF AdmTypeOK
<1>1. SUFFICES \/ \A k \in Jobs : Past(k)' => Past(k)
               \/ \E j \in Jobs : /\ Work[j] \notin ledger.seen
                                 /\ \A k \in Jobs \ {j} : Past(k)' => Past(k)
  BY DEF OneUploader, Reserving
<1> USE DEF Past, Running, Ended
<1>2. ASSUME NEW j \in Jobs, Read(j)  PROVE \A k \in Jobs : Past(k)' => Past(k)
  BY <1>0, <1>2 DEF Read, Admissible, Goto, Hold, End, Forget, StoreVars
<1>3. ASSUME NEW j \in Jobs, Measure(j)  PROVE \A k \in Jobs : Past(k)' => Past(k)
  BY <1>0, <1>3 DEF Measure, Goto, End, Forget, StoreVars
<1>4. ASSUME NEW j \in Jobs, Written(j)
      PROVE  \/ \A k \in Jobs : Past(k)' => Past(k)
             \/ /\ Work[j] \notin ledger.seen
                /\ \A k \in Jobs \ {j} : Past(k)' => Past(k)
  <2>1. CASE step[j] = "write"
    <3>1. Work[j] \notin ledger.seen
      BY <1>4, <2>1 DEF Written, Current, Holding, Reserves
    <3> QED  BY <1>0, <1>4, <3>1 DEF Written, Goto, StoreVars
  <2>2. CASE step[j] = "close"
    BY <1>0, <1>4, <2>2 DEF Written, Goto, StoreVars
  <2> QED  BY <1>4, <2>1, <2>2 DEF Written
<1>5. ASSUME NEW j \in Jobs, Refused(j)  PROVE \A k \in Jobs : Past(k)' => Past(k)
  BY <1>0, <1>5 DEF Refused, Goto, End, Forget, Current, StoreVars
<1>6. ASSUME NEW j \in Jobs, Confirm(j)  PROVE \A k \in Jobs : Past(k)' => Past(k)
  BY <1>0, <1>6 DEF Confirm, Goto, End, Forget, StoreVars
<1>7. ASSUME NEW j \in Jobs, Guard(j)  PROVE \A k \in Jobs : Past(k)' => Past(k)
  BY <1>0, <1>7 DEF Guard, Charge, Allowed, Goto, Hold, End, Forget, StoreVars
<1>8. ASSUME NEW j \in Jobs, Weigh(j)  PROVE \A k \in Jobs : Past(k)' => Past(k)
  BY <1>0, <1>8 DEF Weigh, Charge, Allowed, Goto, End, Forget, StoreVars
<1>9. ASSUME NEW j \in Jobs, SendUpload(j)  PROVE \A k \in Jobs : Past(k)' => Past(k)
  BY <1>0, <1>9 DEF SendUpload, Upload, Stray, Advance, Goto
<1>10. ASSUME NEW j \in Jobs, SendAgain(j)  PROVE \A k \in Jobs : Past(k)' => Past(k)
  BY <1>0, <1>10 DEF SendAgain, Stray, Goto
<1>11. ASSUME NEW j \in Jobs, SendDelete(j)  PROVE \A k \in Jobs : Past(k)' => Past(k)
  BY <1>0, <1>11 DEF SendDelete, Stray, Advance, Goto
<1>12. ASSUME NEW j \in Jobs, Finish(j)  PROVE \A k \in Jobs : Past(k)' => Past(k)
  BY <1>0, <1>12 DEF Finish, Goto, Hold, End, Forget, StoreVars
<1>13. ASSUME NEW j \in Jobs, Stop(j)  PROVE \A k \in Jobs : Past(k)' => Past(k)
  BY <1>0, <1>13 DEF Stop, Stray, Goto, End, Forget
<1>14. ASSUME NEW j \in Jobs, Expire(j)  PROVE \A k \in Jobs : Past(k)' => Past(k)
  BY <1>0, <1>14 DEF Expire, jobVars, StoreVars
<1>15. ASSUME NEW j \in Jobs, LateUpload(j)  PROVE \A k \in Jobs : Past(k)' => Past(k)
  BY <1>0, <1>15 DEF LateUpload, Upload, jobVars
<1>16. ASSUME NEW on \in BOOLEAN, SetPaused(on)  PROVE \A k \in Jobs : Past(k)' => Past(k)
  BY <1>0, <1>16 DEF SetPaused, jobVars
<1>17. ASSUME Reconcile  PROVE \A k \in Jobs : Past(k)' => Past(k)
  BY <1>0, <1>17 DEF Reconcile, jobVars, StoreVars
<1>18. ASSUME ReconcileWritten  PROVE \A k \in Jobs : Past(k)' => Past(k)
  BY <1>0, <1>18 DEF ReconcileWritten, Current, jobVars, StoreVars
<1>19. ASSUME ReconcileFails  PROVE \A k \in Jobs : Past(k)' => Past(k)
  BY <1>0, <1>19 DEF ReconcileFails, Current, jobVars, StoreVars
<1>20. ASSUME NEW w \in writes, LateWrite(w)  PROVE \A k \in Jobs : Past(k)' => Past(k)
  BY <1>0, <1>20 DEF LateWrite, Current, jobVars, StoreVars
<1> QED  BY <1>1, <1>2, <1>3, <1>4, <1>5, <1>6, <1>7, <1>8, <1>9, <1>10, <1>11, <1>12, <1>13,
            <1>14, <1>15, <1>16, <1>17, <1>18, <1>19, <1>20 DEF AdmNext, JobStep

-----------------------------------------------------------------------------
(***************************************************************************)
(* A permission that has ended comes back with the pause only.             *)
(***************************************************************************)
\* No move of the ledger by another job, and no reconciliation, permits a job again.
LEMMA NotPermittedAgain ==
  ASSUME AdmTypeOK, NEW k \in Jobs, ~Permitted(k),
         term'[k] = term[k], k \in expired => k \in expired',
         \/ ledger' = ledger
         \/ \E j \in Jobs \ {k} : ledger' = Reserved(ledger, j)
         \/ \E j \in Jobs : ledger' = Finished(ledger, j)
         \/ \A j \in Jobs : ledger'.reservation[j] = "none"
  PROVE  ~(Permitted(k)')
<1>1. ledger \in Ledger
  BY DEF AdmTypeOK
<1>2. CASE ledger' = ledger
  BY <1>2 DEF Permitted
<1>3. ASSUME NEW j \in Jobs \ {k}, ledger' = Reserved(ledger, j)  PROVE ~(Permitted(k)')
  <2>1. /\ ledger'.paused = ledger.paused /\ ledger'.epoch = ledger.epoch
        /\ ledger'.reservation = [ledger.reservation EXCEPT ![j] = "active"]
    BY <1>1, <1>3, ReservedIs
  <2>2. ledger'.reservation[k] = ledger.reservation[k]
    BY <1>1, <2>1, LedgerFields
  <2> QED  BY <2>1, <2>2 DEF Permitted
<1>4. ASSUME NEW j \in Jobs, ledger' = Finished(ledger, j)  PROVE ~(Permitted(k)')
  <2>1. /\ ledger'.paused = ledger.paused /\ ledger'.epoch = ledger.epoch
        /\ ledger'.reservation = [ledger.reservation EXCEPT ![j] = "finished"]
    BY <1>1, <1>4, FinishedIs
  <2>2. ledger'.reservation[k] = "active" => ledger.reservation[k] = "active"
    BY <1>1, <2>1, LedgerFields
  <2> QED  BY <2>1, <2>2 DEF Permitted
<1>5. CASE \A j \in Jobs : ledger'.reservation[j] = "none"
  BY <1>5 DEF Permitted
<1> QED  BY <1>2, <1>3, <1>4, <1>5

\* A job that sent without permission is refused at its next request.
LEMMA StraysEndKept ==
  ASSUME AdmTypeOK, Holding, Underway, Reserving, StraysEnd, AdmNext
  PROVE  StraysEnd'
<1>0. /\ step \in [Jobs -> Steps] /\ held \in [Jobs -> Write] /\ strays \in [Jobs -> Nat]
      /\ term \in [Jobs -> 0..MaxEpoch] /\ ledger \in Ledger
  BY DEF AdmTypeOK
<1>early. \A j \in Jobs : step[j] \in Starting => strays[j] = 0
  BY DEF Reserving
<1> USE DEF StraysEnd, Ended
<1>1. ASSUME NEW j \in Jobs, Read(j)  PROVE StraysEnd'
  <2>1. \A k \in Jobs : ~Permitted(k) => ~(Permitted(k)')
    BY <1>1, NotPermittedAgain DEF Read
  <2> QED  BY <1>0, <1>1, <2>1 DEF Read, Admissible, Goto, Hold, End, Forget, StoreVars
<1>2. ASSUME NEW j \in Jobs, Measure(j)  PROVE StraysEnd'
  <2>1. \A k \in Jobs : ~Permitted(k) => ~(Permitted(k)')
    BY <1>2, NotPermittedAgain DEF Measure
  <2> QED  BY <1>0, <1>2, <2>1 DEF Measure, Goto, End, Forget, StoreVars
<1>3. ASSUME NEW j \in Jobs, Written(j)  PROVE StraysEnd'
  <2>1. \/ step[j] = "write" /\ ledger' = Reserved(ledger, j)
        \/ step[j] = "close" /\ ledger' = Finished(ledger, j)
    BY <1>3 DEF Written, Current, Holding, Reserves, Finishes
  <2>2. \A k \in Jobs \ {j} : ~Permitted(k) => ~(Permitted(k)')
    BY <1>0, <1>3, <2>1, NotPermittedAgain DEF Written
  <2>3. step[j] = "write" => strays[j] = 0
    BY <1>early DEF Starting
  <2>4. /\ step' = [step EXCEPT ![j] = IF step[j] = "write" THEN "confirm" ELSE "ok"]
        /\ strays' = strays
    BY <1>3 DEF Written, Goto, StoreVars
  <2> QED  BY <1>0, <2>1, <2>2, <2>3, <2>4
<1>4. ASSUME NEW j \in Jobs, Refused(j)  PROVE StraysEnd'
  <2>1. \A k \in Jobs : ~Permitted(k) => ~(Permitted(k)')
    BY <1>4, NotPermittedAgain DEF Refused
  <2> QED  BY <1>0, <1>4, <2>1 DEF Refused, Goto, End, Forget, Current, StoreVars
<1>5. ASSUME NEW j \in Jobs, Confirm(j)  PROVE StraysEnd'
  <2>1. \A k \in Jobs : ~Permitted(k) => ~(Permitted(k)')
    BY <1>5, NotPermittedAgain DEF Confirm
  <2> QED  BY <1>0, <1>5, <2>1 DEF Confirm, Goto, End, Forget, StoreVars
<1>6. ASSUME NEW j \in Jobs, Guard(j)  PROVE StraysEnd'
  <2>1. \A k \in Jobs : ~Permitted(k) => ~(Permitted(k)')
    BY <1>6, NotPermittedAgain DEF Guard
  <2>2. CASE Permitted(j)
    <3>1. strays[j] # 1
      BY <1>6, <2>2 DEF Guard
    <3>2. /\ strays' = strays
          /\ \A k \in Jobs \ {j} : step'[k] = step[k]
      BY <1>0, <1>6 DEF Guard, Charge, Goto, End, StoreVars
    <3> QED  BY <1>0, <2>1, <3>1, <3>2
  <2>3. CASE ~Permitted(j)
    BY <1>0, <1>6, <2>1, <2>3 DEF Guard, Checked, Goto, End, StoreVars
  <2> QED  BY <2>2, <2>3
<1>7. ASSUME NEW j \in Jobs, Weigh(j)  PROVE StraysEnd'
  <2>1. \A k \in Jobs : ~Permitted(k) => ~(Permitted(k)')
    BY <1>7, NotPermittedAgain DEF Weigh
  <2> QED  BY <1>0, <1>7, <2>1 DEF Weigh, Charge, Allowed, Goto, End, Forget, StoreVars
<1>8. ASSUME NEW j \in Jobs, SendUpload(j)  PROVE StraysEnd'
  <2>1. \A k \in Jobs : ~Permitted(k) => ~(Permitted(k)')
    BY <1>8, NotPermittedAgain DEF SendUpload
  <2>2. strays[j] = 0
    BY <1>0, <1>8 DEF SendUpload
  <2> QED  BY <1>0, <1>8, <2>1, <2>2 DEF SendUpload, Upload, Stray, Advance, Goto
<1>9. ASSUME NEW j \in Jobs, SendAgain(j)  PROVE StraysEnd'
  <2>1. \A k \in Jobs : ~Permitted(k) => ~(Permitted(k)')
    BY <1>9, NotPermittedAgain DEF SendAgain
  <2>2. strays[j] = 0
    BY <1>0, <1>9 DEF SendAgain
  <2> QED  BY <1>0, <1>9, <2>1, <2>2 DEF SendAgain, Stray, Goto
<1>10. ASSUME NEW j \in Jobs, SendDelete(j)  PROVE StraysEnd'
  <2>1. \A k \in Jobs : ~Permitted(k) => ~(Permitted(k)')
    BY <1>10, NotPermittedAgain DEF SendDelete
  <2>2. strays[j] = 0
    BY <1>0, <1>10 DEF SendDelete
  <2> QED  BY <1>0, <1>10, <2>1, <2>2 DEF SendDelete, Stray, Advance, Goto
<1>11. ASSUME NEW j \in Jobs, Finish(j)  PROVE StraysEnd'
  <2>1. \A k \in Jobs : ~Permitted(k) => ~(Permitted(k)')
    BY <1>11, NotPermittedAgain DEF Finish
  <2> QED  BY <1>0, <1>11, <2>1 DEF Finish, Goto, Hold, End, Forget, StoreVars
<1>12. ASSUME NEW j \in Jobs, Stop(j)  PROVE StraysEnd'
  <2>1. \A k \in Jobs : ~Permitted(k) => ~(Permitted(k)')
    BY <1>12, NotPermittedAgain DEF Stop
  <2>2. step' = [step EXCEPT ![j] = "stopped"]
    BY <1>12 DEF Stop, End, Goto
  <2>3. strays' = strays \/ (step[j] = "send" /\ Stray(j))
    BY <1>12 DEF Stop
  <2>4. step[j] = "send" => strays[j] = 0
    BY <1>0
  <2>5. CASE strays' = strays
    BY <1>0, <2>1, <2>2, <2>5
  <2>6. CASE step[j] = "send" /\ Stray(j)
    BY <1>0, <2>1, <2>2, <2>4, <2>6 DEF Stray
  <2> QED  BY <2>3, <2>5, <2>6
<1>13. ASSUME NEW j \in Jobs, Expire(j)  PROVE StraysEnd'
  <2>1. \A k \in Jobs : ~Permitted(k) => ~(Permitted(k)')
    BY <1>13, NotPermittedAgain DEF Expire, jobVars
  <2> QED  BY <1>0, <1>13, <2>1 DEF Expire, jobVars, StoreVars
<1>14. ASSUME NEW j \in Jobs, LateUpload(j)  PROVE StraysEnd'
  <2>1. \A k \in Jobs : ~Permitted(k) => ~(Permitted(k)')
    BY <1>14, NotPermittedAgain DEF LateUpload, jobVars
  <2> QED  BY <1>0, <1>14, <2>1 DEF LateUpload, Upload, jobVars
<1>15. ASSUME NEW on \in BOOLEAN, SetPaused(on)  PROVE StraysEnd'
  BY <1>15 DEF SetPaused
<1>16. ASSUME Reconcile  PROVE StraysEnd'
  <2>1. \A k \in Jobs : ~Permitted(k) => ~(Permitted(k)')
    BY <1>16, NotPermittedAgain DEF Reconcile, jobVars
  <2> QED  BY <1>0, <1>16, <2>1 DEF Reconcile, jobVars, StoreVars
<1>17. ASSUME ReconcileWritten  PROVE StraysEnd'
  <2>1. \A j \in Jobs : ledger'.reservation[j] = "none"
    BY <1>17, ReconcilesTo DEF ReconcileWritten, Underway, AdmTypeOK
  <2>2. \A k \in Jobs : ~Permitted(k) => ~(Permitted(k)')
    BY <1>17, <2>1, NotPermittedAgain DEF ReconcileWritten, jobVars
  <2> QED  BY <1>0, <1>17, <2>2 DEF ReconcileWritten, jobVars, StoreVars
<1>18. ASSUME ReconcileFails  PROVE StraysEnd'
  <2>1. \A k \in Jobs : ~Permitted(k) => ~(Permitted(k)')
    BY <1>18, NotPermittedAgain DEF ReconcileFails, jobVars
  <2> QED  BY <1>0, <1>18, <2>1 DEF ReconcileFails, Current, jobVars, StoreVars
<1>19. ASSUME NEW w \in writes, LateWrite(w)  PROVE StraysEnd'
  <2>1. UNCHANGED <<step, late, attempted, strays, term, expired>>
    BY <1>19 DEF LateWrite, jobVars, StoreVars
  <2>2. \A k \in Jobs : step[k] = "guard" /\ ~Permitted(k) => ~(Permitted(k)')
    <3> SUFFICES ASSUME NEW k \in Jobs, step[k] = "guard", ~Permitted(k)  PROVE ~(Permitted(k)')
      OBVIOUS
    <3>1. CASE ledger' = ledger
      BY <2>1, <3>1, NotPermittedAgain
    <3>2. ASSUME NEW j \in Jobs, step[j] \in Ended, ledger' = Reserved(ledger, j)  PROVE ~(Permitted(k)')
      BY <2>1, <3>2, NotPermittedAgain
    <3>3. ASSUME NEW j \in Jobs, ledger' = Finished(ledger, j)  PROVE ~(Permitted(k)')
      BY <2>1, <3>3, NotPermittedAgain
    <3>4. CASE ledger' = w.want /\ Reconciles(w)
      <4>1. \A j \in Jobs : ledger'.reservation[j] = "none"
        BY <3>4, ReconcilesTo DEF AdmTypeOK
      <4> QED  BY <2>1, <4>1, NotPermittedAgain
    <3> QED  BY <1>19, <3>1, <3>2, <3>3, <3>4, LateWriteMoves DEF Reserves, Finishes
  <2> QED  BY <1>0, <2>1, <2>2
<1> QED  BY <1>1, <1>2, <1>3, <1>4, <1>5, <1>6, <1>7, <1>8, <1>9, <1>10, <1>11, <1>12, <1>13,
            <1>14, <1>15, <1>16, <1>17, <1>18, <1>19 DEF AdmNext, JobStep

-----------------------------------------------------------------------------
(***************************************************************************)
(* How the ledger moves.                                                   *)
(***************************************************************************)
LedgerKept == ledger' = ledger
LedgerToggled == \E on \in BOOLEAN : ledger' = [ledger EXCEPT !.paused = on]
LedgerReserved ==
  \E j \in Jobs : /\ Work[j] \notin ledger.seen
                  /\ ledger' = Reserved(ledger, j) /\ Peak(Reserved(ledger, j)) <= Limit
LedgerFinished ==
  \E j \in Jobs : ledger.reservation[j] # "none" /\ ledger' = Finished(ledger, j)
LedgerReconciled ==
  \E w \in Write : w.base = ledger /\ ledger' = w.want /\ Reconciles(w) /\ Fenced(w)
Unstored == UNCHANGED <<pos, attempted, late, stored>>

\* The ledger stays, or it is a pause, a reservation, an end or a reconciliation that
\* moves it, and then nothing is stored in that step.
LEMMA LedgerMoves ==
  ASSUME AdmTypeOK, Holding, Underway, AdmNext
  PROVE  \/ LedgerKept
         \/ Unstored /\ (LedgerToggled \/ LedgerReserved \/ LedgerFinished \/ LedgerReconciled)
<1> DEFINE Moved == LedgerToggled \/ LedgerReserved \/ LedgerFinished \/ LedgerReconciled
<1>1. ASSUME NEW j \in Jobs, JobStep(j), ~Written(j)  PROVE LedgerKept
  BY <1>1 DEF LedgerKept, JobStep, Read, Measure, Refused, Confirm, Guard, Weigh, SendUpload,
     SendAgain,
              SendDelete, Finish
<1>2. ASSUME NEW j \in Jobs, Stop(j) \/ Expire(j) \/ LateUpload(j)  PROVE LedgerKept
  BY <1>2 DEF LedgerKept, Stop, Expire, LateUpload
<1>3. ASSUME NEW j \in Jobs, Written(j)  PROVE Unstored /\ Moved
  <2>1. Unstored
    BY <1>3 DEF Written, StoreVars, Unstored
  <2>2. CASE step[j] = "write"
    <3>1. LedgerReserved
      BY <1>3, <2>2 DEF Written, Current, Holding, Reserves, LedgerReserved
    <3> QED  BY <2>1, <3>1
  <2>3. CASE step[j] = "close"
    <3>1. LedgerFinished
      BY <1>3, <2>3 DEF Written, Current, Holding, Finishes, LedgerFinished
    <3> QED  BY <2>1, <3>1
  <2> QED  BY <1>3, <2>2, <2>3 DEF Written
<1>4. ASSUME NEW on \in BOOLEAN, SetPaused(on)  PROVE Unstored /\ Moved
  BY <1>4 DEF SetPaused, jobVars, Unstored, LedgerToggled
<1>5. ASSUME Reconcile \/ ReconcileFails  PROVE LedgerKept
  BY <1>5 DEF LedgerKept, Reconcile, ReconcileFails
<1>6. ASSUME ReconcileWritten  PROVE Unstored /\ Moved
  <2>1. Unstored
    BY <1>6 DEF ReconcileWritten, jobVars, StoreVars, Unstored
  <2>2. LedgerReconciled
    BY <1>6 DEF ReconcileWritten, Current, Underway, AdmTypeOK, LedgerReconciled
  <2> QED  BY <2>1, <2>2
<1>7. ASSUME NEW w \in writes, LateWrite(w)  PROVE LedgerKept \/ (Unstored /\ Moved)
  <2>1. Unstored
    BY <1>7 DEF LateWrite, jobVars, StoreVars, Unstored
  <2>2. CASE ledger' = ledger
    BY <2>2 DEF LedgerKept
  <2>3. ASSUME w.base = ledger, ledger' = w.want, NEW j \in Jobs, Reserves(w, j), Peak(w.want) <= Limit
        PROVE  LedgerReserved
    BY <2>3 DEF Reserves, LedgerReserved
  <2>4. ASSUME w.base = ledger, ledger' = w.want, NEW j \in Jobs, Finishes(w, j)
        PROVE  LedgerFinished
    BY <2>4 DEF Finishes, LedgerFinished
  <2>5. ASSUME w.base = ledger, ledger' = w.want, Reconciles(w), Fenced(w)
        PROVE  LedgerReconciled
    BY <2>5 DEF LedgerReconciled, AdmTypeOK
  <2> QED  BY <1>7, <2>1, <2>2, <2>3, <2>4, <2>5, LateWriteMoves
<1> HIDE DEF Moved
<1>8. LedgerKept \/ (Unstored /\ Moved)
  BY <1>1, <1>2, <1>3, <1>4, <1>5, <1>6, <1>7 DEF AdmNext, JobStep
<1> QED  BY <1>8 DEF Moved

\* The peak stays within the limit.
LEMMA PeakKept ==
  ASSUME AdmTypeOK, Holding, Underway, Peak(ledger) <= Limit, AdmNext
  PROVE  Peak(ledger)' <= Limit
<1>1. ledger \in Ledger
  BY DEF AdmTypeOK
<1>2. Peak(ledger)' = Peak(ledger')
  BY DEF Peak, Charged, Debits
<1>3. CASE LedgerKept
  BY <1>2, <1>3 DEF LedgerKept
<1>4. CASE LedgerToggled
  BY <1>1, <1>2, <1>4, PausedIs, SameCharges DEF LedgerToggled
<1>5. CASE LedgerReserved
  BY <1>2, <1>5 DEF LedgerReserved
<1>6. CASE LedgerFinished
  <2>1. PICK j \in Jobs : ledger.reservation[j] # "none" /\ ledger' = Finished(ledger, j)
    BY <1>6 DEF LedgerFinished
  <2>2. \A k \in Jobs : ledger'.reservation[k] # "none" <=> ledger.reservation[k] # "none"
    <3>1. ledger'.reservation = [ledger.reservation EXCEPT ![j] = "finished"]
      BY <1>1, <2>1, FinishedIs
    <3>2. ledger.reservation \in [Jobs -> {"none", "active", "finished"}]
      BY <1>1, LedgerFields
    <3> QED  BY <2>1, <3>1, <3>2
  <2>3. ledger' \in Ledger /\ ledger'.baseline = ledger.baseline
    BY <1>1, <2>1, FinishedIs
  <2> QED  BY <1>1, <1>2, <2>2, <2>3, SameCharges
<1>7. CASE LedgerReconciled
  BY <1>2, <1>7, ReconcilesTo DEF LedgerReconciled
<1> QED  BY <1>3, <1>4, <1>5, <1>6, <1>7, LedgerMoves

-----------------------------------------------------------------------------
(***************************************************************************)
(* Nothing that a pending reconciliation has measured moves.               *)
(***************************************************************************)
\* What a write was made from stays behind the ledger, and never comes back.
LEMMA BeforeKept ==
  ASSUME AdmTypeOK, Holding, Underway, Reserving, AdmNext, NEW w \in Write, Before(w.base, ledger)
  PROVE  Before(w.base, ledger') /\ (Alike(w.base, ledger') => Alike(w.base, ledger))
<1> DEFINE b == w.base
<1>1. ledger \in Ledger /\ b \in Ledger
  BY DEF AdmTypeOK, Write
<1>2. /\ b.epoch \in Nat /\ ledger.epoch \in Nat
      /\ b.reservation \in [Jobs -> {"none", "active", "finished"}]
      /\ ledger.reservation \in [Jobs -> {"none", "active", "finished"}]
  BY <1>1, LedgerFields
<1> HIDE DEF b
<1>3. Before(b, ledger)
  BY DEF b
<1>4. CASE LedgerKept
  BY <1>3, <1>4 DEF LedgerKept, b
<1>5. CASE LedgerToggled
  <2>1. /\ ledger'.epoch = ledger.epoch /\ ledger'.baseline = ledger.baseline
        /\ ledger'.seen = ledger.seen /\ ledger'.reservation = ledger.reservation
    BY <1>1, <1>5, PausedIs DEF LedgerToggled
  <2> QED  BY <1>3, <2>1 DEF Before, Alike, b
<1>6. CASE LedgerReserved
  <2>1. PICK j \in Jobs : Work[j] \notin ledger.seen /\ ledger' = Reserved(ledger, j)
    BY <1>6 DEF LedgerReserved
  <2>2. /\ ledger'.epoch = ledger.epoch /\ ledger'.baseline = ledger.baseline
        /\ ledger'.seen = ledger.seen \cup {Work[j]}
    BY <1>1, <2>1, ReservedIs
  <2>3. ledger'.reservation = [ledger.reservation EXCEPT ![j] = "active"]
    BY <1>1, <2>1, ReservedIs
  <2>4. ~Alike(b, ledger')
    BY <1>3, <2>1, <2>2 DEF Before, Alike
  <2>5. \A k \in Jobs \ {j} : ledger'.reservation[k] = ledger.reservation[k]
    BY <1>2, <2>3
  <2>6. \A k \in Jobs : /\ ledger.reservation[k] # "none" => ledger'.reservation[k] # "none"
                        /\ ledger.reservation[k] # "finished" \/ k = j
                             \/ ledger'.reservation[k] = "finished"
    BY <1>2, <2>3
  <2>7. ledger.reservation[j] # "finished"
    BY <2>1 DEF Reserving
  <2>8. Before(b, ledger')
    BY <1>2, <1>3, <2>2, <2>6, <2>7 DEF Before
  <2> QED  BY <2>4, <2>8 DEF b
<1>7. CASE LedgerFinished
  <2>1. PICK j \in Jobs : ledger.reservation[j] # "none" /\ ledger' = Finished(ledger, j)
    BY <1>7 DEF LedgerFinished
  <2>2. /\ ledger'.epoch = ledger.epoch /\ ledger'.baseline = ledger.baseline
        /\ ledger'.seen = ledger.seen
    BY <1>1, <2>1, FinishedIs
  <2>3. ledger'.reservation = [ledger.reservation EXCEPT ![j] = "finished"]
    BY <1>1, <2>1, FinishedIs
  <2>4. Before(b, ledger')
    BY <1>2, <1>3, <2>2, <2>3 DEF Before
  <2>5. ASSUME Alike(b, ledger')  PROVE Alike(b, ledger)
    <3>1. b.epoch = ledger.epoch /\ b.reservation[j] = "finished"
      BY <1>2, <2>2, <2>3, <2>5 DEF Alike
    <3>2. ledger.reservation[j] = "finished"
      BY <1>3, <3>1 DEF Before
    <3>3. ledger'.reservation = ledger.reservation
      BY <1>2, <2>3, <3>2
    <3> QED  BY <2>2, <2>5, <3>3 DEF Alike
  <2> QED  BY <2>4, <2>5 DEF b
<1>8. CASE LedgerReconciled
  <2>1. ledger'.epoch = ledger.epoch + 1 /\ ledger'.seen = ledger.seen
    BY <1>8, ReconcilesTo DEF LedgerReconciled
  <2>2. b.epoch < ledger'.epoch
    BY <1>2, <1>3, <2>1 DEF Before
  <2>3. b.epoch # ledger'.epoch
    BY <1>2, <2>1, <2>2
  <2> QED  BY <1>3, <2>1, <2>2, <2>3, <1>2 DEF Before, Alike, b
<1> QED  BY <1>4, <1>5, <1>6, <1>7, <1>8, LedgerMoves

\* What a request was charged for stays used once it has been answered or lost.
LEMMA PendingIs ==
  ASSUME AdmTypeOK, NEW k \in Jobs
  PROVE  Pending(k) \in 0..2
BY DEF Pending

UsedGrows ==
  \A k \in Jobs : /\ Pending(k)' <= attempted'[k]
                  /\ attempted[k] - Pending(k) <= attempted'[k] - Pending(k)'

\* What was used of a reservation never shrinks: charges are never refunded.
LEMMA UsedKept ==
  ASSUME AdmTypeOK, Attempted, AdmNext
  PROVE  UsedGrows /\ Attempted'
<1>0. /\ step \in [Jobs -> Steps] /\ attempted \in [Jobs -> Nat]
      /\ late \in [Jobs -> {"none", "data", "pointer", "status"}]
      /\ pos \in [Jobs -> 1..Len(Plan) + 1]
  BY DEF AdmTypeOK
<1> USE DEF UsedGrows, Attempted, Pending, Kind, Ended
<1>1. ASSUME NEW j \in Jobs, Read(j)  PROVE UsedGrows
  BY <1>1, <1>0 DEF Read, Admissible, Goto, Hold, End, Forget, StoreVars
<1>2. ASSUME NEW j \in Jobs, Measure(j)  PROVE UsedGrows
  BY <1>2, <1>0 DEF Measure, Goto, End, Forget, StoreVars
<1>3. ASSUME NEW j \in Jobs, Written(j)  PROVE UsedGrows
  BY <1>3, <1>0 DEF Written, Goto, Forget, Current, StoreVars
<1>4. ASSUME NEW j \in Jobs, Refused(j)  PROVE UsedGrows
  BY <1>4, <1>0 DEF Refused, Goto, End, Forget, Current, StoreVars
<1>5. ASSUME NEW j \in Jobs, Confirm(j)  PROVE UsedGrows
  BY <1>5, <1>0 DEF Confirm, Goto, End, Forget, StoreVars
<1>6. ASSUME NEW j \in Jobs, Guard(j)  PROVE UsedGrows
  BY <1>6, <1>0 DEF Guard, Charge, Allowed, Goto, Hold, End, Forget, StoreVars
<1>7. ASSUME NEW j \in Jobs, Weigh(j)  PROVE UsedGrows
  BY <1>7, <1>0 DEF Weigh, Charge, Allowed, Goto, End, Forget, StoreVars
<1>8. ASSUME NEW j \in Jobs, SendUpload(j)  PROVE UsedGrows
  BY <1>8, <1>0 DEF SendUpload, Upload, Stray, Advance, Goto
<1>9. ASSUME NEW j \in Jobs, SendAgain(j)  PROVE UsedGrows
  BY <1>9, <1>0 DEF SendAgain, Stray, Goto
<1>10. ASSUME NEW j \in Jobs, SendDelete(j)  PROVE UsedGrows
  BY <1>10, <1>0 DEF SendDelete, Stray, Advance, Goto
<1>11. ASSUME NEW j \in Jobs, Finish(j)  PROVE UsedGrows
  BY <1>11, <1>0 DEF Finish, Goto, Hold, End, Forget, StoreVars
<1>12. ASSUME NEW j \in Jobs, Stop(j)  PROVE UsedGrows
  <2>1. step' = [step EXCEPT ![j] = "stopped"] /\ UNCHANGED <<attempted, pos>>
    BY <1>12 DEF Stop, End, Goto
  <2>2. \/ late' = late
        \/ step[j] = "send" /\ Plan[pos[j]] # "delete" /\ late' = [late EXCEPT ![j] = Plan[pos[j]]]
    BY <1>12 DEF Stop
  <2>3. \A k \in Jobs \ {j} : step'[k] = step[k] /\ late'[k] = late[k]
    BY <1>0, <2>1, <2>2
  <2>4. step'[j] = "stopped"
    BY <1>0, <2>1
  <2>5. late'[j] = late[j] \/ (step[j] = "send" /\ Plan[pos[j]] # "delete")
    BY <1>0, <2>2
  <2> QED  BY <1>0, <2>1, <2>3, <2>4, <2>5
<1>13. ASSUME NEW j \in Jobs, Expire(j)  PROVE UsedGrows
  BY <1>0, <1>13 DEF Expire, jobVars, StoreVars
<1>14. ASSUME NEW j \in Jobs, LateUpload(j)  PROVE UsedGrows
  BY <1>0, <1>14 DEF LateUpload, jobVars, StoreVars
<1>15. ASSUME NEW on \in BOOLEAN, SetPaused(on)  PROVE UsedGrows
  BY <1>0, <1>15 DEF SetPaused, jobVars, StoreVars
<1>16. ASSUME Reconcile  PROVE UsedGrows
  BY <1>0, <1>16 DEF Reconcile, jobVars, StoreVars
<1>17. ASSUME ReconcileWritten  PROVE UsedGrows
  BY <1>0, <1>17 DEF ReconcileWritten, jobVars, StoreVars
<1>18. ASSUME ReconcileFails  PROVE UsedGrows
  BY <1>0, <1>18 DEF ReconcileFails, jobVars, StoreVars
<1>19. ASSUME NEW w \in writes, LateWrite(w)  PROVE UsedGrows
  BY <1>0, <1>19 DEF LateWrite, jobVars, StoreVars
<1> HIDE DEF UsedGrows
<1>20. UsedGrows
  BY <1>1, <1>2, <1>3, <1>4, <1>5, <1>6, <1>7, <1>8, <1>9, <1>10, <1>11, <1>12, <1>13, <1>14,
     <1>15, <1>16, <1>17, <1>18, <1>19 DEF AdmNext, JobStep
<1> QED  BY <1>20 DEF UsedGrows

\* What is stored grows by the uploads of a job that has a reservation.
LEMMA StoreMoves ==
  ASSUME AdmTypeOK, Attempted, AdmNext
  PROVE  \/ \A o \in Owners : stored'[o] <= stored[o]
         \/ \E j \in Jobs, o \in Owners :
              /\ Live(j) /\ LedgerKept /\ o \in {Owner[j], Shared}
              /\ attempted[j] - Pending(j) < attempted'[j] - Pending(j)'
              /\ stored' = [stored EXCEPT ![o] = @ + 1]
<1>0. /\ stored \in [Owners -> Nat] /\ attempted \in [Jobs -> Nat]
      /\ step \in [Jobs -> Steps] /\ late \in [Jobs -> {"none", "data", "pointer", "status"}]
  BY DEF AdmTypeOK
<1> DEFINE Grows(j, o) ==
             /\ Live(j) /\ LedgerKept /\ o \in {Owner[j], Shared}
             /\ attempted[j] - Pending(j) < attempted'[j] - Pending(j)'
             /\ stored' = [stored EXCEPT ![o] = @ + 1]
           Shrinks == \A o \in Owners : stored'[o] <= stored[o]
<1>1. CASE stored' = stored
  BY <1>0, <1>1
<1>2. ASSUME NEW j \in Jobs, NEW kind, NEW size \in 0..1, Upload(j, kind, size),
             Live(j), LedgerKept, attempted[j] - Pending(j) < attempted'[j] - Pending(j)'
      PROVE  Shrinks \/ \E o \in Owners : Grows(j, o)
  <2> DEFINE o == IF kind = "data" THEN Owner[j] ELSE Shared
  <2>1. o \in Owners /\ stored' = [stored EXCEPT ![o] = @ + size]
    BY <1>2, OwnersOfJobs DEF Upload
  <2>2. CASE size = 0
    <3>1. stored' = stored
      BY <1>0, <2>1, <2>2
    <3> QED  BY <1>0, <3>1
  <2>3. CASE size = 1
    BY <1>2, <2>1, <2>3
  <2> QED  BY <2>2, <2>3
<1>3. ASSUME NEW j \in Jobs, SendUpload(j)  PROVE Shrinks \/ \E o \in Owners : Grows(j, o)
  <2>1. PICK size \in 0..1 : Upload(j, Kind(j), size)
    BY <1>3 DEF SendUpload
  <2>2. Live(j) /\ LedgerKept
    BY <1>3 DEF SendUpload, Live, Running, LedgerKept
  <2>3. step'[j] # "send" /\ late'[j] = "none" /\ attempted' = attempted
    BY <1>0, <1>3 DEF SendUpload, Advance, Goto
  <2>4. attempted[j] - Pending(j) < attempted'[j] - Pending(j)'
    BY <1>0, <1>3, <2>3 DEF SendUpload, Pending
  <2> QED  BY <1>2, <2>1, <2>2, <2>4
<1>4. ASSUME NEW j \in Jobs, LateUpload(j)  PROVE Shrinks \/ \E o \in Owners : Grows(j, o)
  <2>1. PICK size \in 0..1 : Upload(j, late[j], size)
    BY <1>4 DEF LateUpload
  <2>2. Live(j) /\ LedgerKept
    BY <1>4 DEF LateUpload, Live, LedgerKept
  <2>3. late'[j] = "none" /\ UNCHANGED <<step, pos, attempted>>
    BY <1>0, <1>4 DEF LateUpload, jobVars
  <2>4. attempted[j] - Pending(j) < attempted'[j] - Pending(j)'
    BY <1>0, <1>4, <2>3 DEF LateUpload, Pending, Kind
  <2> QED  BY <1>2, <2>1, <2>2, <2>4
<1>5. ASSUME NEW j \in Jobs, SendDelete(j)  PROVE Shrinks
  <2>1. Owner[j] \in Owners
    BY OwnersOfJobs
  <2>2. \/ stored' = stored
        \/ stored' = [stored EXCEPT ![Owner[j]] = @ - 1]
    BY <1>5 DEF SendDelete
  <2> QED  BY <1>0, <2>1, <2>2
<1>6. ASSUME NEW j \in Jobs,
             Read(j) \/ Measure(j) \/ Written(j) \/ Refused(j) \/ Confirm(j) \/ Guard(j) \/ Weigh(j)
               \/ SendAgain(j) \/ Finish(j) \/ Stop(j) \/ Expire(j)
      PROVE  stored' = stored
  BY <1>6 DEF Read, Measure, Written, Refused, Confirm, Guard, Weigh, SendAgain, Finish, Stop,
     Expire, StoreVars
<1>7. ASSUME (\E on \in BOOLEAN : SetPaused(on)) \/ Reconcile \/ ReconcileWritten \/ ReconcileFails
               \/ \E w \in writes : LateWrite(w)
      PROVE  stored' = stored
  BY <1>7 DEF SetPaused, Reconcile, ReconcileWritten, ReconcileFails, LateWrite, StoreVars
<1> HIDE DEF Shrinks, Grows
<1>8. Shrinks \/ \E j \in Jobs, o \in Owners : Grows(j, o)
  <2>1. stored' = stored => Shrinks
    BY <1>0 DEF Shrinks
  <2> QED  BY <2>1, <1>3, <1>4, <1>5, <1>6, <1>7 DEF AdmNext, JobStep
<1> QED  BY <1>8 DEF Shrinks, Grows

\* A job that has ended stays so, and starts no upload.
LEMMA QuietKept ==
  ASSUME AdmTypeOK, AdmNext, NEW k \in Jobs, step[k] \in Ended
  PROVE  step'[k] \in Ended /\ (late[k] = "none" => late'[k] = "none")
<1>0. /\ step \in [Jobs -> Steps] /\ late \in [Jobs -> {"none", "data", "pointer", "status"}]
  BY DEF AdmTypeOK
<1> USE DEF Ended
<1>1. ASSUME NEW j \in Jobs,
             Read(j) \/ Measure(j) \/ Written(j) \/ Refused(j) \/ Confirm(j) \/ Guard(j) \/ Weigh(j) \/ Finish(j)
      PROVE  step[j] \notin Ended /\ late' = late /\ \A i \in Jobs \ {j} : step'[i] = step[i]
  <2>1. step[j] \notin Ended /\ late' = late
    BY <1>1 DEF Read, Measure, Written, Refused, Confirm, Guard, Weigh, Finish, StoreVars
  <2>2. \E s : Goto(j, s)
    BY <1>1 DEF Read, Measure, Written, Refused, Confirm, Guard, Weigh, Finish, Charge, End
  <2> QED  BY <1>0, <2>1, <2>2 DEF Goto
<1>2. ASSUME NEW j \in Jobs, SendUpload(j) \/ SendAgain(j) \/ SendDelete(j) \/ Stop(j)
      PROVE  /\ step[j] \notin Ended
             /\ \A i \in Jobs \ {j} : step'[i] = step[i] /\ (late[i] = "none" => late'[i] = "none")
  <2>1. \A i \in Jobs \ {j} : step'[i] = step[i]
    BY <1>0, <1>2 DEF SendUpload, SendAgain, SendDelete, Stop, Advance, End, Goto
  <2>2. \A i \in Jobs \ {j} : late[i] = "none" => late'[i] = "none"
    BY <1>0, <1>2 DEF SendUpload, SendAgain, SendDelete, Stop
  <2>3. step[j] \notin Ended
    BY <1>2 DEF SendUpload, SendAgain, SendDelete, Stop
  <2> QED  BY <2>1, <2>2, <2>3
<1>3. ASSUME NEW j \in Jobs, Expire(j) \/ LateUpload(j)
      PROVE  step' = step /\ \A i \in Jobs : late[i] = "none" => late'[i] = "none"
  BY <1>0, <1>3 DEF Expire, LateUpload, jobVars, StoreVars
<1>4. ASSUME (\E on \in BOOLEAN : SetPaused(on)) \/ Reconcile \/ ReconcileWritten \/ ReconcileFails
               \/ \E w \in writes : LateWrite(w)
      PROVE  step' = step /\ late' = late
  BY <1>4 DEF SetPaused, Reconcile, ReconcileWritten, ReconcileFails, LateWrite, jobVars, StoreVars
<1> QED  BY <1>1, <1>2, <1>3, <1>4 DEF AdmNext, JobStep

\* A fence that stands goes on standing.
LEMMA FenceKept ==
  ASSUME AdmTypeOK, AdmTypeOK', Holding, Underway, Reserving, Attempted, AdmNext,
         NEW w \in Write, Before(w.base, ledger), Fenced(w)
  PROVE  Before(w.base, ledger') /\ Fenced(w)'
<1>1. Before(w.base, ledger') /\ (Alike(w.base, ledger') => Alike(w.base, ledger))
  BY BeforeKept
<1>2. ASSUME Alike(w.base, ledger')
      PROVE  /\ \A j \in Jobs : ledger'.reservation[j] # "none" => Quiet(j)'
             /\ \A o \in Managed : stored'[o] <= w.want.baseline[o]
  <2>1. ledger'.reservation = ledger.reservation
    BY <1>1, <1>2 DEF Alike
  <2>2. /\ \A j \in Jobs : ledger.reservation[j] # "none" => Quiet(j)
        /\ \A o \in Managed : stored[o] <= w.want.baseline[o]
    BY <1>1, <1>2 DEF Fenced
  <2>3. \A j \in Jobs : Quiet(j) => Quiet(j)'
    BY QuietKept DEF Quiet
  <2>4. \A j \in Jobs : ~Live(j)
    BY <2>2 DEF Reserving, Live, Quiet, Running, Ended
  <2>5. \A o \in Owners : stored'[o] <= stored[o]
    BY <2>4, StoreMoves
  <2>6. \A o \in Managed : stored'[o] \in Int /\ stored[o] \in Nat /\ w.want.baseline[o] \in Nat
    BY LedgerFields DEF AdmTypeOK, Write, Owners
  <2> QED  BY <2>1, <2>2, <2>3, <2>5, <2>6 DEF Owners
<1> QED  BY <1>1, <1>2 DEF Fenced

\* What a lost write stands for does not change.
LEMMA LostWriteKept ==
  ASSUME AdmTypeOK, AdmTypeOK', Holding, Underway, Reserving, Attempted, AdmNext,
         NEW w \in Write, LostWrite(w)
  PROVE  LostWrite(w)'
<1>1. CASE Reconciles(w) /\ Before(w.base, ledger) /\ Fenced(w)
  <2>1. Reconciles(w)'
    BY <1>1 DEF Reconciles, Peak, Charged, Debits
  <2>2. Before(w.base, ledger') /\ Fenced(w)'
    BY <1>1, FenceKept
  <2> QED  BY <2>1, <2>2 DEF LostWrite
<1>2. ASSUME NEW j \in Jobs, step[j] \in Ended,
             (Reserves(w, j) /\ Peak(w.want) <= Limit) \/ Finishes(w, j)
      PROVE  LostWrite(w)'
  <2>1. step'[j] \in Ended
    BY <1>2, QuietKept
  <2>2. ((Reserves(w, j) /\ Peak(w.want) <= Limit) \/ Finishes(w, j))'
    BY <1>2 DEF Reserves, Finishes, Peak, Charged, Debits
  <2> QED  BY <2>1, <2>2 DEF LostWrite
<1> QED  BY <1>1, <1>2 DEF LostWrite

\* The evidence that the operator brings fences what the reconciliation measures.
LEMMA ReconcileFences ==
  ASSUME AdmTypeOK, Reserving, Reconcile
  PROVE  (Reconciles(op) /\ Before(op.base, ledger) /\ Fenced(op))'
<1> DEFINE want == Reconciled(ledger, stored)
<1>1. /\ ledger \in Ledger /\ stored \in [Owners -> Nat] /\ step \in [Jobs -> Steps]
  BY DEF AdmTypeOK
<1>2. /\ op' = [base |-> ledger, want |-> want] /\ Envelope(want, stored)
      /\ ledger.paused /\ Drained /\ ledger.epoch < MaxEpoch
      /\ UNCHANGED <<ledger, step, late, stored>>
  BY DEF Reconcile, Inventory, Reconcilable, jobVars, StoreVars
<1>3. /\ want \in Ledger /\ want.baseline = [o \in Managed |-> stored[o]]
      /\ want.epoch = ledger.epoch + 1 /\ want.paused = ledger.paused
      /\ want.reservation = [j \in Jobs |-> "none"] /\ want.seen = ledger.seen
  BY <1>1, <1>2, ReconciledIs
<1>4. want = [ledger EXCEPT !.baseline = want.baseline,
                            !.reservation = [j \in Jobs |-> "none"], !.epoch = @ + 1]
  BY <1>3 DEF Reconciled
<1>5. op'.base = ledger /\ op'.want = want
  BY <1>2
<1>6. Reconciles(op)'
  <2>1. Peak(want)' = Peak(want) /\ Peak(want) <= Limit
    BY <1>2 DEF Envelope, Peak, Charged, Debits
  <2>2. Peak(op.want)' = Peak(want)
    BY <1>5 DEF Peak, Charged, Debits
  <2> HIDE DEF want
  <2> QED  BY <1>2, <1>4, <1>5, <2>1, <2>2 DEF Reconciles
<1>7. Before(op.base, ledger)'
  BY <1>1, <1>2, <1>5, LedgerFields DEF Before
<1>8. \A j \in Jobs : ledger.reservation[j] # "none" => Quiet(j)
  BY <1>2 DEF Drained, DrainedJobs, Idle, Reserving, Starting, Quiet
<1>9. \A o \in Managed : stored[o] <= want.baseline[o]
  BY <1>1, <1>3 DEF Owners
<1>10. /\ \A j \in Jobs : ledger'.reservation[j] # "none" => Quiet(j)'
       /\ \A o \in Managed : stored'[o] <= op'.want.baseline[o]
  BY <1>2, <1>5, <1>8, <1>9 DEF Quiet
<1>11. Fenced(op)'
  BY <1>10 DEF Fenced
<1> QED  BY <1>6, <1>7, <1>11

\* Every write under way, a lost one or the operator's, is as it should be.
LEMMA UnderwayKept ==
  ASSUME AdmTypeOK, AdmTypeOK', Holding, Underway, Reserving, Attempted, AdmNext
  PROVE  Underway'
<1>1. \A w \in writes : LostWrite(w)'
  BY LostWriteKept DEF Underway, AdmTypeOK
<1>2. ASSUME op # NoWrite, op' = op  PROVE (Reconciles(op) /\ Before(op.base, ledger) /\ Fenced(op))'
  <2>1. Reconciles(op)'
    BY <1>2 DEF Underway, Reconciles, Peak, Charged, Debits
  <2>2. Before(op.base, ledger') /\ \A w \in Write : w = op => Fenced(w)'
    BY <1>2, FenceKept DEF Underway, AdmTypeOK
  <2>3. Fenced(op)'
    BY <1>2, <2>2 DEF Fenced, AdmTypeOK
  <2> QED  BY <1>2, <2>1, <2>2, <2>3 DEF Before
<1>3. ASSUME NEW j \in Jobs, JobStep(j) \/ Expire(j) \/ LateUpload(j)  PROVE writes' = writes /\ op' = op
  BY <1>3 DEF JobStep, Read, Measure, Written, Refused, Confirm, Guard, Weigh, SendUpload,
     SendAgain,
              SendDelete, Finish, Expire, LateUpload
<1>4. ASSUME NEW j \in Jobs, Stop(j)
      PROVE  op' = op /\ \A w \in writes' : w \in writes \/ LostWrite(w)'
  <2>1. op' = op /\ step' = [step EXCEPT ![j] = "stopped"]
    BY <1>4 DEF Stop, End, Goto
  <2>2. step'[j] \in Ended
    BY <2>1 DEF AdmTypeOK, Ended
  <2>3. ASSUME NEW w \in writes', w \notin writes  PROVE LostWrite(w)'
    <3>1. step[j] \in {"write", "close"} /\ w = held[j]
      BY <1>4, <2>3 DEF Stop
    <3>2. (Reserves(w, j) /\ Peak(w.want) <= Limit) \/ Finishes(w, j)
      BY <3>1 DEF Holding
    <3>3. ((Reserves(w, j) /\ Peak(w.want) <= Limit) \/ Finishes(w, j))'
      BY <3>2 DEF Reserves, Finishes, Peak, Charged, Debits
    <3> QED  BY <2>2, <3>3 DEF LostWrite
  <2> QED  BY <2>1, <2>3
<1>5. ASSUME (\E on \in BOOLEAN : SetPaused(on)) \/ \E w \in writes : LateWrite(w)
      PROVE  op' = op /\ writes' \subseteq writes
  BY <1>5 DEF SetPaused, LateWrite, Unstored
<1>6. ASSUME Reconcile  PROVE Underway'
  <2>1. writes' = writes
    BY <1>6 DEF Reconcile
  <2>2. (Reconciles(op) /\ Before(op.base, ledger) /\ Fenced(op))'
    BY <1>6, ReconcileFences
  <2> QED  BY <1>1, <2>1, <2>2 DEF Underway
<1>7. ASSUME ReconcileWritten  PROVE op' = NoWrite /\ writes' = writes
  BY <1>7 DEF ReconcileWritten
<1>8. ASSUME ReconcileFails  PROVE op' = NoWrite /\ \A w \in writes' : w \in writes \/ LostWrite(w)'
  <2>1. op' = NoWrite /\ writes' \subseteq writes \cup {op} /\ op # NoWrite
    BY <1>8 DEF ReconcileFails
  <2>2. LostWrite(op)
    BY <2>1 DEF Underway, LostWrite
  <2>3. \A w \in Write : w = op => LostWrite(w)'
    BY <2>2, LostWriteKept
  <2> QED  BY <2>1, <2>3 DEF AdmTypeOK
<1>9. NoWrite' = NoWrite
  BY DEF NoWrite, Provisioned
<1> HIDE DEF NoWrite
<1>10. CASE op' = NoWrite /\ \A w \in writes' : w \in writes \/ LostWrite(w)'
  BY <1>1, <1>9, <1>10 DEF Underway
<1>11. CASE op' = op /\ \A w \in writes' : w \in writes \/ LostWrite(w)'
  <2>1. op # NoWrite => (Reconciles(op) /\ Before(op.base, ledger) /\ Fenced(op))'
    BY <1>2, <1>11
  <2> QED  BY <1>1, <1>9, <1>11, <2>1 DEF Underway
<1> QED  BY <1>3, <1>4, <1>5, <1>6, <1>7, <1>8, <1>10, <1>11 DEF AdmNext

-----------------------------------------------------------------------------
(***************************************************************************)
(* What is stored is covered by what was used of the reservations.         *)
(***************************************************************************)
\* What was used, and what is late, is within the reservation.
LEMMA UsedIs ==
  ASSUME AdmTypeOK, Attempted
  PROVE  /\ Used \in [Jobs -> Nat]
         /\ \A j \in Jobs : Used[j] = attempted[j] - Pending(j)
         /\ \A j \in Jobs : Used[j] + (IF late[j] = "data" THEN 1 ELSE 0) <= Size[j]
<1>1. \A j \in Jobs : attempted[j] \in Nat /\ attempted[j] <= Size[j] /\ Pending(j) \in 0..2
  BY PendingIs DEF AdmTypeOK
<1>2. \A j \in Jobs : attempted[j] - Pending(j) \in Nat
  BY <1>1 DEF Attempted
<1>3. \A j \in Jobs : late[j] = "data" => Pending(j) >= 1
  BY DEF Pending
<1>4. \A j \in Jobs : Used[j] = attempted[j] - Pending(j)
  BY DEF Used
<1>5. Used \in [Jobs -> Nat]
  BY <1>2 DEF Used
<1> QED  BY <1>1, <1>3, <1>4, <1>5, AdmissionNumbers

\* The same after the step.
LEMMA UsedNext ==
  ASSUME AdmTypeOK', Attempted'
  PROVE  Used' \in [Jobs -> Nat] /\ \A j \in Jobs : Used'[j] = attempted'[j] - Pending(j)'
<1>1. \A j \in Jobs : attempted'[j] \in Nat /\ Pending(j)' \in 0..2
  BY DEF AdmTypeOK, Pending
<1>2. \A j \in Jobs : attempted'[j] - Pending(j)' \in Nat
  BY <1>1 DEF Attempted
<1> QED  BY <1>2 DEF Used

\* Reservations are added, and nothing is stored.
LEMMA CoveredStill ==
  ASSUME AdmTypeOK, AdmTypeOK', Attempted, Attempted', UsedGrows, Covered,
         ledger'.baseline = ledger.baseline,
         \A j \in Jobs : ledger.reservation[j] # "none" => ledger'.reservation[j] # "none",
         \A o \in Owners : stored'[o] <= stored[o]
  PROVE  Covered'
<1> SUFFICES ASSUME NEW o \in Managed
             PROVE  stored'[o] <= ledger'.baseline[o] + Total(Used', ReservedOf(o)')
  BY DEF Covered
<1> DEFINE R == ReservedOf(o)
           S == {j \in JobsOf(o) : ledger'.reservation[j] # "none"}
<1>1. ReservedOf(o)' = S
  BY DEF ReservedOf, JobsOf
<1>2. R \in SUBSET S /\ IsFiniteSet(S) /\ S \subseteq Jobs
  <2>1. IsFiniteSet(S) /\ S \subseteq Jobs
    BY JobsOfAreFinite
  <2> QED  BY <2>1 DEF ReservedOf, JobsOf
<1>3. \A j \in Jobs : Used[j] \in Nat /\ Used'[j] \in Nat /\ Used[j] <= Used'[j]
  BY UsedIs, UsedNext DEF UsedGrows
<1> HIDE DEF R, S
<1>4. Total(Used, R) <= Total(Used', S) /\ Total(Used, R) \in Nat /\ Total(Used', S) \in Nat
  <2>1. IsFiniteSet(R)
    BY <1>2, FS_Subset
  <2>2. Total(Used, R) <= Total(Used', S)
    BY <1>2, <1>3, TotalAtMost
  <2> QED  BY <1>2, <1>3, <2>1, <2>2, BytesFinite
<1>5. stored[o] \in Nat /\ stored'[o] \in Nat /\ ledger.baseline[o] \in Nat /\ stored'[o] <= stored[o]
  BY LedgerFields DEF AdmTypeOK, Owners
<1>6. stored[o] <= ledger.baseline[o] + Total(Used, R)
  BY DEF Covered, R
<1> QED  BY <1>1, <1>4, <1>5, <1>6

\* A job stores what it had been charged for.
LEMMA CoveredByUpload ==
  ASSUME AdmTypeOK, AdmTypeOK', Attempted, Attempted', UsedGrows, Covered, ledger' = ledger,
         NEW j \in Jobs, ledger.reservation[j] # "none",
         attempted[j] - Pending(j) < attempted'[j] - Pending(j)',
         NEW o \in Owners, o \in {Owner[j], Shared}, stored' = [stored EXCEPT ![o] = @ + 1]
  PROVE  Covered'
<1>1. CASE o = Shared
  <2>1. \A q \in Managed : stored'[q] = stored[q]
    BY <1>1, AdmissionJobs DEF AdmTypeOK, Owners
  <2> SUFFICES ASSUME NEW q \in Managed
               PROVE  stored'[q] <= ledger'.baseline[q] + Total(Used', ReservedOf(q)')
    BY DEF Covered
  <2> DEFINE R == ReservedOf(q)
  <2>2. ReservedOf(q)' = R
    BY DEF ReservedOf, JobsOf
  <2>3. IsFiniteSet(R) /\ R \subseteq Jobs
    BY JobsOfAreFinite DEF ReservedOf
  <2>4. \A i \in Jobs : Used[i] \in Nat /\ Used'[i] \in Nat /\ Used[i] <= Used'[i]
    BY UsedIs, UsedNext DEF UsedGrows
  <2>5. stored[q] <= ledger.baseline[q] + Total(Used, R)
    BY DEF Covered
  <2>6. stored[q] \in Nat /\ ledger.baseline[q] \in Nat
    BY LedgerFields DEF AdmTypeOK, Owners
  <2> HIDE DEF R
  <2>7. Total(Used, R) <= Total(Used', R) /\ Total(Used, R) \in Nat /\ Total(Used', R) \in Nat
    BY <2>3, <2>4, TotalAtMost, BytesFinite
  <2> QED  BY <2>1, <2>2, <2>5, <2>6, <2>7
<1>2. CASE o = Owner[j]
  <2> SUFFICES ASSUME NEW q \in Managed
               PROVE  stored'[q] <= ledger'.baseline[q] + Total(Used', ReservedOf(q)')
    BY DEF Covered
  <2> DEFINE R == ReservedOf(q)
  <2>1. ReservedOf(q)' = R
    BY DEF ReservedOf, JobsOf
  <2>2. IsFiniteSet(R) /\ R \subseteq Jobs
    BY JobsOfAreFinite DEF ReservedOf
  <2>3. \A i \in Jobs : Used[i] \in Nat /\ Used'[i] \in Nat /\ Used[i] <= Used'[i]
    BY UsedIs, UsedNext DEF UsedGrows
  <2>4. stored[q] <= ledger.baseline[q] + Total(Used, R)
    BY DEF Covered
  <2>5. stored[q] \in Nat /\ ledger.baseline[q] \in Nat
    BY LedgerFields DEF AdmTypeOK, Owners
  <2>6. Used[j] < Used'[j]
    BY UsedIs, UsedNext
  <2>7. q = o => j \in R
    BY <1>2 DEF ReservedOf, JobsOf
  <2>8. stored'[q] = IF q = o THEN stored[q] + 1 ELSE stored[q]
    BY DEF AdmTypeOK, Owners
  <2> HIDE DEF R
  <2>9. /\ Total(Used, R) \in Nat /\ Total(Used', R) \in Nat
        /\ Total(Used, R) <= Total(Used', R)
    BY <2>2, <2>3, TotalAtMost, BytesFinite
  <2>10. q = o => Total(Used, R) + 1 <= Total(Used', R)
    BY <2>2, <2>3, <2>6, <2>7, TotalGrows
  <2> QED  BY <2>1, <2>4, <2>5, <2>8, <2>9, <2>10
<1> QED  BY <1>1, <1>2

\* A reconciliation measures, and releases.
LEMMA CoveredAfresh ==
  ASSUME AdmTypeOK, Reserving, LedgerReconciled, stored' = stored
  PROVE  Covered'
<1>1. PICK w \in Write : w.base = ledger /\ ledger' = w.want /\ Reconciles(w) /\ Fenced(w)
  BY DEF LedgerReconciled
<1>2. \A o \in Managed : stored[o] <= w.want.baseline[o]
  BY <1>1, FenceHolds
<1>3. \A j \in Jobs : ledger'.reservation[j] = "none"
  BY <1>1, ReconcilesTo
<1> SUFFICES ASSUME NEW o \in Managed
             PROVE  stored'[o] <= ledger'.baseline[o] + Total(Used', ReservedOf(o)')
  BY DEF Covered
<1>4. ReservedOf(o)' = {}
  BY <1>3 DEF ReservedOf, JobsOf
<1>5. Total(Used', ReservedOf(o)') = 0
  BY <1>4, TotalNothing
<1>6. ledger'.baseline[o] \in Nat
  BY <1>1, ReconcilesTo, LedgerFields
<1> QED  BY <1>1, <1>2, <1>5, <1>6

\* What is stored stays covered, whoever stores, reserves, pauses or reconciles.
LEMMA CoveredKept ==
  ASSUME AdmTypeOK, AdmTypeOK', Holding, Underway, Reserving, Attempted, Covered, AdmNext
  PROVE  Covered'
<1>1. UsedGrows /\ Attempted'
  BY UsedKept
<1>2. ledger \in Ledger /\ ledger.reservation \in [Jobs -> {"none", "active", "finished"}]
  BY LedgerFields DEF AdmTypeOK
<1>3. CASE LedgerKept /\ \A o \in Owners : stored'[o] <= stored[o]
  BY <1>1, <1>3, CoveredStill DEF LedgerKept
<1>4. ASSUME NEW j \in Jobs, NEW o \in Owners,
             Live(j) /\ LedgerKept /\ o \in {Owner[j], Shared}
             /\ attempted[j] - Pending(j) < attempted'[j] - Pending(j)'
             /\ stored' = [stored EXCEPT ![o] = @ + 1]
      PROVE  Covered'
  <2>1. ledger.reservation[j] # "none" /\ ledger' = ledger
    BY <1>4 DEF Reserving, LedgerKept
  <2> QED  BY <1>1, <1>4, <2>1, CoveredByUpload
<1>5. ASSUME Unstored  PROVE \A o \in Owners : stored'[o] <= stored[o]
  BY <1>5 DEF Unstored, AdmTypeOK
<1>6. CASE Unstored /\ LedgerToggled
  <2>1. ledger'.baseline = ledger.baseline /\ ledger'.reservation = ledger.reservation
    BY <1>2, <1>6, PausedIs DEF LedgerToggled
  <2> QED  BY <1>1, <1>5, <1>6, <2>1, CoveredStill
<1>7. CASE Unstored /\ LedgerReserved
  <2>1. PICK j \in Jobs : ledger' = Reserved(ledger, j)
    BY <1>7 DEF LedgerReserved
  <2>2. /\ ledger'.baseline = ledger.baseline
        /\ ledger'.reservation = [ledger.reservation EXCEPT ![j] = "active"]
    BY <1>2, <2>1, ReservedIs
  <2>3. \A k \in Jobs : ledger.reservation[k] # "none" => ledger'.reservation[k] # "none"
    BY <1>2, <2>2
  <2> QED  BY <1>1, <1>5, <1>7, <2>2, <2>3, CoveredStill
<1>8. CASE Unstored /\ LedgerFinished
  <2>1. PICK j \in Jobs : ledger' = Finished(ledger, j)
    BY <1>8 DEF LedgerFinished
  <2>2. /\ ledger'.baseline = ledger.baseline
        /\ ledger'.reservation = [ledger.reservation EXCEPT ![j] = "finished"]
    BY <1>2, <2>1, FinishedIs
  <2>3. \A k \in Jobs : ledger.reservation[k] # "none" => ledger'.reservation[k] # "none"
    BY <1>2, <2>2
  <2> QED  BY <1>1, <1>5, <1>8, <2>2, <2>3, CoveredStill
<1>9. CASE Unstored /\ LedgerReconciled
  BY <1>9, CoveredAfresh DEF Unstored
<1> QED  BY <1>3, <1>4, <1>5, <1>6, <1>7, <1>8, <1>9, LedgerMoves, StoreMoves

-----------------------------------------------------------------------------
(***************************************************************************)
(* What races past the check of the mutable keys.                          *)
(***************************************************************************)
\* Sets of jobs, counted.
LEMMA RacersAreFinite ==
  ASSUME NEW S \in SUBSET Jobs
  PROVE  IsFiniteSet(S) /\ Cardinality(S) \in Nat /\ Cardinality(S) <= Cardinality(Jobs)
         /\ Cardinality(Jobs) \in Nat
<1>1. IsFiniteSet(Jobs)
  BY AdmissionNumbers
<1> QED  BY <1>1, FS_Subset, FS_CardinalityType

\* The jobs that race.
LEMMA RacersAre == MutableSends \in SUBSET Jobs /\ MutableLate \in SUBSET Jobs
BY DEF MutableSends, MutableLate

\* The same after the step.
LEMMA RacersNext == MutableSends' \in SUBSET Jobs /\ MutableLate' \in SUBSET Jobs
BY DEF MutableSends, MutableLate

\* No more than before of each.
LEMMA RacingStill ==
  ASSUME AdmTypeOK, AdmTypeOK', Racing, MutableSends' \subseteq MutableSends,
         MutableLate' \subseteq MutableLate, stored'[Shared] <= stored[Shared]
  PROVE  Racing'
<1> DEFINE A == Cardinality(MutableSends)
           B == Cardinality(MutableLate)
<1>1. Cardinality(MutableSends') <= A /\ Cardinality(MutableLate') <= B
  <2>1. IsFiniteSet(MutableSends) /\ IsFiniteSet(MutableLate)
    BY RacersAre, RacersAreFinite
  <2> QED  BY <2>1, FS_Subset
<1>2. /\ A \in Nat /\ B \in Nat
      /\ Cardinality(MutableSends') \in Nat /\ Cardinality(MutableLate') \in Nat
      /\ Cardinality(Jobs) \in Nat
  BY RacersAre, RacersNext, RacersAreFinite
<1>3. stored[Shared] \in Nat /\ stored'[Shared] \in Nat /\ Ceiling[Shared] \in Nat
  BY AdmissionNumbers, OwnersOfJobs DEF AdmTypeOK
<1> QED  BY <1>1, <1>2, <1>3 DEF Racing

\* A request is answered: what it may have stored, it no longer races to store.
LEMMA RacingSent ==
  ASSUME AdmTypeOK, AdmTypeOK', Racing, NEW j \in Jobs,
         stored'[Shared] <= stored[Shared] + 1,
         \/ /\ j \in MutableSends /\ MutableSends' \subseteq MutableSends \ {j}
            /\ MutableLate' \subseteq MutableLate
         \/ /\ j \in MutableLate /\ MutableLate' \subseteq MutableLate \ {j}
            /\ MutableSends' \subseteq MutableSends
  PROVE  Racing'
<1>1. IsFiniteSet(MutableSends) /\ IsFiniteSet(MutableLate)
  BY RacersAre, RacersAreFinite
<1>2. /\ Cardinality(MutableSends) \in Nat /\ Cardinality(MutableLate) \in Nat
      /\ Cardinality(MutableSends') \in Nat /\ Cardinality(MutableLate') \in Nat
      /\ Cardinality(Jobs) \in Nat
  BY RacersAre, RacersNext, RacersAreFinite
<1>3. ASSUME NEW S, IsFiniteSet(S), j \in S, NEW T \in SUBSET (S \ {j})
      PROVE  Cardinality(T) <= Cardinality(S) - 1
  <2>1. IsFiniteSet(S \ {j}) /\ Cardinality(S \ {j}) = Cardinality(S) - 1
    BY <1>3, FS_RemoveElement
  <2> QED  BY <2>1, FS_Subset
<1>4. Cardinality(MutableSends') + Cardinality(MutableLate') + 1
        <= Cardinality(MutableSends) + Cardinality(MutableLate)
  <2>1. CASE j \in MutableSends /\ MutableSends' \subseteq MutableSends \ {j} /\ MutableLate' \subseteq MutableLate
    <3>1. Cardinality(MutableSends') <= Cardinality(MutableSends) - 1
      BY <1>1, <1>3, <2>1
    <3>2. Cardinality(MutableLate') <= Cardinality(MutableLate)
      BY <1>1, <2>1, FS_Subset
    <3> QED  BY <1>2, <3>1, <3>2
  <2>2. CASE j \in MutableLate /\ MutableLate' \subseteq MutableLate \ {j} /\ MutableSends' \subseteq MutableSends
    <3>1. Cardinality(MutableLate') <= Cardinality(MutableLate) - 1
      BY <1>1, <1>3, <2>2
    <3>2. Cardinality(MutableSends') <= Cardinality(MutableSends)
      BY <1>1, <2>2, FS_Subset
    <3> QED  BY <1>2, <3>1, <3>2
  <2> QED  BY <2>1, <2>2
<1>5. stored[Shared] \in Nat /\ stored'[Shared] \in Nat /\ Ceiling[Shared] \in Nat
  BY AdmissionNumbers, OwnersOfJobs DEF AdmTypeOK
<1> QED  BY <1>2, <1>4, <1>5 DEF Racing

\* An answer is lost: what raced in one way races in another.
LEMMA RacingLost ==
  ASSUME AdmTypeOK, AdmTypeOK', Racing, NEW j \in Jobs, stored' = stored,
         j \in MutableSends, MutableSends' \subseteq MutableSends \ {j},
         MutableLate' \subseteq MutableLate \cup {j}
  PROVE  Racing'
<1>1. IsFiniteSet(MutableSends) /\ IsFiniteSet(MutableLate)
  BY RacersAre, RacersAreFinite
<1>2. /\ Cardinality(MutableSends) \in Nat /\ Cardinality(MutableLate) \in Nat
      /\ Cardinality(MutableSends') \in Nat /\ Cardinality(MutableLate') \in Nat
      /\ Cardinality(Jobs) \in Nat
  BY RacersAre, RacersNext, RacersAreFinite
<1>3. Cardinality(MutableSends') <= Cardinality(MutableSends) - 1
  <2>1. IsFiniteSet(MutableSends \ {j}) /\ Cardinality(MutableSends \ {j}) = Cardinality(MutableSends) - 1
    BY <1>1, FS_RemoveElement
  <2> QED  BY <2>1, FS_Subset
<1>4. Cardinality(MutableLate') <= Cardinality(MutableLate) + 1
  <2>1. /\ IsFiniteSet(MutableLate \cup {j})
        /\ Cardinality(MutableLate \cup {j}) <= Cardinality(MutableLate) + 1
    <3>1. /\ IsFiniteSet(MutableLate \cup {j})
          /\ Cardinality(MutableLate \cup {j}) =
               IF j \in MutableLate THEN Cardinality(MutableLate) ELSE Cardinality(MutableLate) + 1
      BY <1>1, FS_AddElement
    <3>2. CASE j \in MutableLate
      BY <1>2, <3>1, <3>2
    <3>3. CASE j \notin MutableLate
      BY <1>2, <3>1, <3>3
    <3> QED  BY <3>2, <3>3
  <2>2. Cardinality(MutableLate') <= Cardinality(MutableLate \cup {j})
    BY <2>1, FS_Subset
  <2>3. Cardinality(MutableLate \cup {j}) \in Nat
    BY <2>1, FS_CardinalityType
  <2> QED  BY <1>2, <2>1, <2>2, <2>3
<1>5. stored[Shared] \in Nat /\ Ceiling[Shared] \in Nat
  BY AdmissionNumbers, OwnersOfJobs DEF AdmTypeOK
<1> QED  BY <1>2, <1>3, <1>4, <1>5 DEF Racing

\* What races past the check of the mutable keys is at most two requests of each job.
LEMMA RacingKept ==
  ASSUME AdmTypeOK, AdmTypeOK', InPlan, Racing, AdmNext
  PROVE  Racing'
<1>0. /\ step \in [Jobs -> Steps] /\ stored \in [Owners -> Nat]
      /\ late \in [Jobs -> {"none", "data", "pointer", "status"}]
      /\ pos \in [Jobs -> 1..Len(Plan) + 1]
      /\ Shared \in Owners /\ \A j \in Jobs : Owner[j] \in Owners /\ Owner[j] # Shared
  BY AdmissionNumbers, OwnersOfJobs DEF AdmTypeOK
<1> DEFINE Fewer == /\ MutableSends' \subseteq MutableSends /\ MutableLate' \subseteq MutableLate
                    /\ stored'[Shared] <= stored[Shared]
<1>1. ASSUME NEW j \in Jobs, Read(j) \/ Measure(j) \/ Written(j) \/ Refused(j) \/ Confirm(j) \/ Finish(j)
      PROVE  Fewer
  <2>1. stored' = stored /\ late' = late /\ pos' = pos
    BY <1>1 DEF Read, Measure, Written, Refused, Confirm, Finish, StoreVars
  <2>2. \E s \in Steps \ {"send"} : Goto(j, s)
    BY <1>1 DEF Read, Measure, Written, Refused, Confirm, Finish, End, Steps, Ended
  <2>3. \A k \in Jobs : step'[k] = "send" => step[k] = "send"
    BY <1>0, <2>2 DEF Goto
  <2> QED  BY <1>0, <2>1, <2>3 DEF MutableSends, MutableLate, Kind
<1>2. ASSUME NEW j \in Jobs, Guard(j)  PROVE Fewer
  <2>1. stored' = stored /\ late' = late /\ pos' = pos
    BY <1>2 DEF Guard, StoreVars
  <2>2. (\E s \in Steps \ {"send"} : Goto(j, s)) \/ (Goto(j, "send") /\ Kind(j) \in {"data", "delete"})
    BY <1>2 DEF Guard, Charge, End, Steps, Ended
  <2>3. \A k \in Jobs : step'[k] = "send" => step[k] = "send" \/ Kind(k) \in {"data", "delete"}
    BY <1>0, <2>2 DEF Goto
  <2>4. \A k \in Jobs : step'[k] = "send" /\ Kind(k) \in Mutable => step[k] = "send"
    BY <2>3 DEF Mutable
  <2>5. \A k \in Jobs : Kind(k)' = Kind(k)
    BY <2>1 DEF Kind
  <2>6. MutableSends' \subseteq MutableSends
    BY <2>4, <2>5 DEF MutableSends, Mutable
  <2> QED  BY <1>0, <2>1, <2>6 DEF MutableLate
<1>3. ASSUME NEW j \in Jobs, Weigh(j)  PROVE Racing'
  <2>1. stored' = stored /\ late' = late /\ pos' = pos
    BY <1>3 DEF Weigh, StoreVars
  <2>2. CASE Room(held[j].base)
    <3>1. stored'[Shared] + 1 <= Ceiling[Shared]
      BY <2>1, <2>2 DEF Room, Inventory
    <3>2. /\ Cardinality(MutableSends') \in Nat /\ Cardinality(MutableLate') \in Nat
          /\ Cardinality(MutableSends') <= Cardinality(Jobs) /\ Cardinality(MutableLate') <= Cardinality(Jobs)
          /\ Cardinality(Jobs) \in Nat
      BY RacersNext, RacersAreFinite
    <3> QED  BY <1>0, <2>1, <3>1, <3>2, AdmissionNumbers DEF Racing
  <2>3. CASE ~Room(held[j].base)
    <3>1. \A k \in Jobs : step'[k] = "send" => step[k] = "send"
      BY <1>0, <1>3, <2>3 DEF Weigh, End, Goto
    <3>2. Fewer
      BY <1>0, <2>1, <3>1 DEF MutableSends, MutableLate, Kind
    <3> QED  BY <3>2, RacingStill
  <2> QED  BY <2>2, <2>3
<1>4. ASSUME NEW j \in Jobs, SendUpload(j)  PROVE Racing'
  <2>1. PICK size \in 0..1 : Upload(j, Kind(j), size)
    BY <1>4 DEF SendUpload
  <2>2. step[j] = "send" /\ late' = [late EXCEPT ![j] = "none"] /\ Kind(j) # "delete"
    BY <1>4 DEF SendUpload
  <2>3. step'[j] # "send" /\ \A k \in Jobs \ {j} : step'[k] = step[k] /\ pos'[k] = pos[k]
    BY <1>0, <1>4 DEF SendUpload, Advance, Goto
  <2>4. MutableSends' \subseteq MutableSends \ {j} /\ MutableLate' \subseteq MutableLate
    BY <1>0, <2>2, <2>3 DEF MutableSends, MutableLate, Mutable, Kind
  <2>5. Kind(j) \in {"data", "pointer", "delete", "status"}
    BY <2>2, KindIs DEF InPlan, Ended
  <2>6. CASE Kind(j) = "data"
    <3>1. stored'[Shared] = stored[Shared]
      BY <1>0, <2>1, <2>6 DEF Upload
    <3> QED  BY <1>0, <2>4, <3>1, RacingStill
  <2>7. CASE Kind(j) \in Mutable
    <3>1. stored'[Shared] <= stored[Shared] + 1
      BY <1>0, <2>1, <2>7 DEF Upload, Mutable
    <3>2. j \in MutableSends
      BY <2>2, <2>7 DEF MutableSends
    <3> QED  BY <2>4, <3>1, <3>2, RacingSent
  <2> QED  BY <2>2, <2>5, <2>6, <2>7 DEF Mutable
<1>5. ASSUME NEW j \in Jobs, LateUpload(j)  PROVE Racing'
  <2>1. PICK size \in 0..1 : Upload(j, late[j], size)
    BY <1>5 DEF LateUpload
  <2>2. late' = [late EXCEPT ![j] = "none"] /\ UNCHANGED <<step, pos>> /\ late[j] # "none"
    BY <1>5 DEF LateUpload, jobVars
  <2>3. MutableSends' \subseteq MutableSends /\ MutableLate' \subseteq MutableLate \ {j}
    BY <1>0, <2>2 DEF MutableSends, MutableLate, Mutable, Kind
  <2>4. CASE late[j] = "data"
    <3>1. stored'[Shared] = stored[Shared]
      BY <1>0, <2>1, <2>4 DEF Upload
    <3> QED  BY <1>0, <2>3, <3>1, RacingStill
  <2>5. CASE late[j] \in Mutable
    <3>1. stored'[Shared] <= stored[Shared] + 1
      BY <1>0, <2>1, <2>5 DEF Upload, Mutable
    <3>2. j \in MutableLate
      BY <2>5 DEF MutableLate
    <3> QED  BY <2>3, <3>1, <3>2, RacingSent
  <2> QED  BY <1>0, <2>2, <2>4, <2>5 DEF Mutable
<1>6. ASSUME NEW j \in Jobs, SendAgain(j) \/ Stop(j)  PROVE Racing'
  <2>1. /\ stored' = stored /\ pos' = pos
        /\ \E s \in Steps \ {"send"} : Goto(j, s)
    BY <1>6 DEF SendAgain, Stop, End, Steps, Ended
  <2>2. late' = late \/ (step[j] = "send" /\ late' = [late EXCEPT ![j] = Kind(j)])
    BY <1>6 DEF SendAgain, Stop
  <2>3. step'[j] # "send" /\ \A k \in Jobs \ {j} : step'[k] = step[k]
    BY <1>0, <2>1 DEF Goto
  <2>4. MutableSends' \subseteq MutableSends \ {j}
    BY <2>1, <2>3 DEF MutableSends, Kind
  <2>5. CASE late' = late \/ Kind(j) \notin Mutable
    <3>1. MutableLate' \subseteq MutableLate
      BY <1>0, <2>2, <2>5 DEF MutableLate, Mutable
    <3> QED  BY <1>0, <2>1, <2>4, <3>1, RacingStill
  <2>6. CASE step[j] = "send" /\ Kind(j) \in Mutable
    <3>1. MutableLate' \subseteq MutableLate \cup {j}
      BY <1>0, <2>2 DEF MutableLate, Mutable
    <3>2. j \in MutableSends
      BY <2>6 DEF MutableSends
    <3> QED  BY <2>1, <2>4, <3>1, <3>2, RacingLost
  <2> QED  BY <2>2, <2>5, <2>6
<1>7. ASSUME NEW j \in Jobs, SendDelete(j)  PROVE Fewer
  <2>1. late' = late /\ stored'[Shared] = stored[Shared] /\ stored[Shared] \in Nat
    BY <1>0, <1>7 DEF SendDelete
  <2>2. step'[j] # "send" /\ \A k \in Jobs \ {j} : step'[k] = step[k] /\ pos'[k] = pos[k]
    BY <1>0, <1>7 DEF SendDelete, Advance, Goto
  <2> QED  BY <2>1, <2>2 DEF MutableSends, MutableLate, Kind
<1>8. ASSUME \/ \E j \in Jobs : Expire(j)
             \/ \E on \in BOOLEAN : SetPaused(on)
             \/ Reconcile \/ ReconcileWritten \/ ReconcileFails
             \/ \E w \in writes : LateWrite(w)
      PROVE  Fewer
  <2>1. UNCHANGED <<step, pos, late, stored>>
    BY <1>8 DEF Expire, SetPaused, Reconcile, ReconcileWritten, ReconcileFails, LateWrite,
       jobVars, StoreVars
  <2> QED  BY <1>0, <2>1 DEF MutableSends, MutableLate, Kind
<1>9. Fewer => Racing'
  BY RacingStill
<1> HIDE DEF Fewer
<1> QED  BY <1>1, <1>2, <1>3, <1>4, <1>5, <1>6, <1>7, <1>8, <1>9 DEF AdmNext, JobStep

-----------------------------------------------------------------------------
(***************************************************************************)
(* The invariant, and what it gives.                                       *)
(***************************************************************************)
\* The provisioned ledger has the invariant.
LEMMA AdmInvInit ==
  ASSUME AdmInit
  PROVE  AdmInv
<1> USE DEF AdmInit
<1>1. /\ ledger \in Ledger /\ held \in [Jobs -> Write] /\ op \in Write
      /\ ledger.epoch = 0 /\ ledger.baseline = [o \in Managed |-> Initial[o]]
      /\ ledger.reservation = [j \in Jobs |-> "none"]
  BY NothingWritten DEF Provisioned
<1>2. AdmTypeOK
  <2>1. Initial \in [Owners -> Nat]
    BY AdmissionBytes
  <2> QED  BY <1>1, <2>1, AdmissionNumbers DEF AdmTypeOK, Steps
<1>3. InPlan
  BY AdmissionNumbers DEF InPlan
<1>4. Holding
  BY DEF Holding
<1>5. Underway
  BY DEF Underway
<1>6. Reserving
  BY <1>1 DEF Reserving, Live, Past, Starting, Running
<1>7. OneUploader /\ StraysEnd
  BY DEF OneUploader, Past, StraysEnd, Running
<1>8. Attempted
  BY DEF Attempted, Pending
<1>9. Covered
  <2> SUFFICES ASSUME NEW o \in Managed
               PROVE  stored[o] <= ledger.baseline[o] + Total(Used, ReservedOf(o))
    BY DEF Covered
  <2>1. ReservedOf(o) = {}
    BY <1>1 DEF ReservedOf, JobsOf
  <2>2. Total(Used, ReservedOf(o)) = 0
    BY <2>1, TotalNothing
  <2>3. stored[o] = Initial[o] /\ Initial[o] \in Nat
    BY AdmissionNumbers DEF Owners
  <2> QED  BY <1>1, <2>2, <2>3
<1>10. Racing
  <2>1. MutableSends = {} /\ MutableLate = {}
    BY DEF MutableSends, MutableLate, Mutable
  <2>2. Cardinality(MutableSends) = 0 /\ Cardinality(MutableLate) = 0
    BY <2>1, FS_EmptySet
  <2>3. Cardinality(Jobs) \in Nat
    BY RacersAreFinite
  <2>4. Initial[Shared] \in Nat /\ Initial[Shared] <= Ceiling[Shared] /\ Ceiling[Shared] \in Nat
    BY AdmissionNumbers, OwnersOfJobs
  <2> QED  BY <2>2, <2>3, <2>4 DEF Racing
<1>11. Peak(ledger) <= Limit
  BY AdmissionProvisioned DEF Envelope
<1> QED  BY <1>2, <1>3, <1>4, <1>5, <1>6, <1>7, <1>8, <1>9, <1>10, <1>11 DEF AdmInv

\* Every step keeps it.
LEMMA AdmInvNext ==
  ASSUME AdmInv, AdmNext
  PROVE  AdmInv'
<1> USE DEF AdmInv
<1>1. AdmTypeOK' /\ InPlan'
  BY TypeKept, InPlanKept
<1>2. Holding' /\ Reserving' /\ OneUploader' /\ StraysEnd'
  BY HoldingKept, ReservingKept, OneUploaderKept, StraysEndKept
<1>3. Attempted' /\ Underway'
  BY <1>1, UsedKept, UnderwayKept
<1>4. Covered' /\ Racing'
  BY <1>1, CoveredKept, RacingKept
<1>5. Peak(ledger)' <= Limit
  BY PeakKept
<1> QED  BY <1>1, <1>2, <1>3, <1>4, <1>5

\* So does a stuttering step.
LEMMA AdmInvUnchanged ==
  ASSUME AdmInv, UNCHANGED admVars
  PROVE  AdmInv'
<1> USE DEF admVars
<1>1. AdmTypeOK' /\ InPlan' /\ Holding'
  BY DEF AdmInv, AdmTypeOK, InPlan, Holding, Reserves, Finishes, Peak, Charged, Debits
<1>2. Reserving' /\ OneUploader' /\ StraysEnd'
  BY DEF AdmInv, Reserving, OneUploader, StraysEnd, Live, Past, Permitted
<1>3. Attempted' /\ Used' = Used
  BY DEF AdmInv, Attempted, Used, Pending, Kind
<1>4. Covered' /\ Racing' /\ Peak(ledger)' <= Limit
  BY <1>3 DEF AdmInv, Covered, ReservedOf, Racing, MutableSends, MutableLate, Kind, Peak, Charged,
     Debits
<1>5. Underway'
  <2>1. \A w : Fenced(w) => Fenced(w)'
    BY DEF Fenced, Quiet
  <2>2. \A w : Reconciles(w) => Reconciles(w)'
    BY DEF Reconciles, Peak, Charged, Debits
  <2>3. \A w : Before(w.base, ledger) => Before(w.base, ledger)'
    BY DEF Before
  <2>4. \A w : LostWrite(w) => LostWrite(w)'
    <3>1. \A w, j : ((Reserves(w, j) /\ Peak(w.want) <= Limit) \/ Finishes(w, j))
                 => ((Reserves(w, j) /\ Peak(w.want) <= Limit) \/ Finishes(w, j))'
      BY DEF Reserves, Finishes, Peak, Charged, Debits
    <3> QED  BY <2>1, <2>2, <2>3, <3>1 DEF LostWrite
  <2>5. op # NoWrite => (Reconciles(op) /\ Before(op.base, ledger) /\ Fenced(op))'
    <3>1. op # NoWrite => Reconciles(op) /\ Before(op.base, ledger) /\ Fenced(op)
      BY DEF AdmInv, Underway
    <3>2. op # NoWrite => Reconciles(op)'
      BY <3>1 DEF Reconciles, Peak, Charged, Debits
    <3>3. op # NoWrite => Before(op.base, ledger)' /\ Fenced(op)'
      BY <3>1 DEF Before, Fenced, Quiet
    <3> QED  BY <3>2, <3>3
  <2>6. \A w \in writes' : LostWrite(w)'
    BY <2>4 DEF AdmInv, Underway
  <2>7. op' = op /\ NoWrite' = NoWrite
    BY DEF NoWrite, Provisioned
  <2> HIDE DEF NoWrite
  <2> QED  BY <2>5, <2>6, <2>7 DEF Underway
<1> QED  BY <1>1, <1>2, <1>3, <1>4, <1>5 DEF AdmInv

\* The inductive invariant of the ledger and its jobs (Admission, ReservedStore).
THEOREM AdmissionInvariant == AdmSpec => []AdmInv
<1>1. AdmInit => AdmInv
  BY AdmInvInit
<1>2. AdmInv /\ [AdmNext]_admVars => AdmInv'
  BY AdmInvNext, AdmInvUnchanged
<1> QED  BY <1>1, <1>2, PTL DEF AdmSpec

\* Type correctness of the ledger, the jobs and the store.
THEOREM AdmissionTyped == AdmSpec => []AdmTypeOK
<1>1. AdmInv => AdmTypeOK
  BY DEF AdmInv
<1> QED  BY <1>1, AdmissionInvariant, PTL

\* Of two jobs of one publication identity one never uploads: the check of seen_work in
\* acquire is repeated by every conditional write, and reconcile keeps seen_work.
THEOREM EachWorkIsUploadedOnce == AdmSpec => []WorkOnce
<1>1. AdmInv => WorkOnce
  <2> SUFFICES ASSUME AdmInv, NEW j \in Jobs, NEW k \in Jobs, j # k, Work[j] = Work[k],
                      attempted[j] # 0, attempted[k] # 0
               PROVE  FALSE
    BY DEF WorkOnce
  <2>1. attempted[j] > 0 /\ attempted[k] > 0
    BY DEF AdmInv, AdmTypeOK
  <2> QED  BY <2>1 DEF AdmInv, OneUploader, Past
<1> QED  BY <1>1, AdmissionInvariant, PTL

\* A pause, an expiry or a reconciliation stops each job at its next request: the check in
\* ReservedStore.put and delete is made before each of them, and only a new pause brings a
\* permission back.
THEOREM PausesStopEveryJob == AdmSpec => []StopsAfterPause
<1>1. AdmInv => StopsAfterPause
  BY DEF AdmInv, StraysEnd, StopsAfterPause
<1> QED  BY <1>1, AdmissionInvariant, PTL

\* The part of BytesHold that no headroom is needed for.
ChargesCover == \A o \in Managed : stored[o] + Cardinality(OnItsWay(o)) <= Charged(ledger, o)

\* What is stored and what is late is charged.
LEMMA CoveredIsCharged ==
  ASSUME AdmInv
  PROVE  ChargesCover
<1> SUFFICES ASSUME NEW o \in Managed
             PROVE  stored[o] + Cardinality(OnItsWay(o)) <= Charged(ledger, o)
  BY DEF ChargesCover
<1> DEFINE R == ReservedOf(o)
           A == OnItsWay(o)
<1>1. A \in SUBSET R
  BY DEF AdmInv, Reserving, Live, OnItsWay, ReservedOf, JobsOf
<1>2. IsFiniteSet(R) /\ R \subseteq Jobs
  BY JobsOfAreFinite DEF ReservedOf
<1>3. /\ \A j \in R : Used[j] \in Nat /\ Size[j] \in Nat /\ Used[j] <= Size[j]
      /\ \A j \in A : Used[j] + 1 <= Size[j]
  BY <1>1, <1>2, UsedIs, AdmissionNumbers DEF AdmInv, OnItsWay
<1>4. stored[o] <= ledger.baseline[o] + Total(Used, R)
  BY DEF AdmInv, Covered
<1>5. Charged(ledger, o) = ledger.baseline[o] + Total(Size, R)
  BY AdmissionJobs DEF Charged, Debits, ReservedOf
<1>6. stored[o] \in Nat /\ ledger.baseline[o] \in Nat
  BY LedgerFields DEF AdmInv, AdmTypeOK, Owners
<1> HIDE DEF R, A
<1>7. Total(Used, R) + Cardinality(A) <= Total(Size, R)
  BY <1>1, <1>2, <1>3, TotalWithSome
<1>8. Total(Used, R) \in Nat /\ Total(Size, R) \in Nat /\ Cardinality(A) \in Nat
  BY <1>1, <1>2, <1>3, BytesFinite, FS_Subset, FS_CardinalityType
<1> QED  BY <1>4, <1>5, <1>6, <1>7, <1>8 DEF A

\* The bucket holds what is stored, if the headroom takes two mutable requests of each job.
LEMMA HeadroomTakesTheRaces ==
  ASSUME AdmInv, 2 * Cardinality(Jobs) <= Headroom + Control
  PROVE  Total(stored, Owners) <= Limit
<1> DEFINE c == [o \in Owners |-> Charged(ledger, o)]
           K == 2 * Cardinality(Jobs)
<1>1. ledger \in Ledger /\ stored \in [Owners -> Nat]
  BY DEF AdmInv, AdmTypeOK
<1>2. K \in Nat
  BY RacersAreFinite
<1>3. \A o \in Owners : c[o] \in Nat /\ stored[o] \in Nat
  BY <1>1, DebitsAreNatural
<1>4. \A o \in Managed : stored[o] <= c[o]
  <2> TAKE o \in Managed
  <2>1. stored[o] + Cardinality(OnItsWay(o)) <= c[o]
    BY CoveredIsCharged DEF ChargesCover, Owners
  <2>2. Cardinality(OnItsWay(o)) \in Nat
    BY JobsOfAreFinite, FS_CardinalityType DEF OnItsWay
  <2>3. stored[o] \in Nat /\ c[o] \in Nat
    BY <1>3 DEF Owners
  <2> HIDE DEF c
  <2> QED  BY <2>1, <2>2, <2>3
<1>5. stored[Shared] <= c[Shared] + K
  <2>1. c[Shared] = Ceiling[Shared]
    BY OwnersOfJobs DEF Charged
  <2>2. Cardinality(MutableSends) \in Nat /\ Cardinality(MutableLate) \in Nat
    BY RacersAre, RacersAreFinite
  <2>3. stored[Shared] \in Nat /\ Ceiling[Shared] \in Nat
    BY <1>1, OwnersOfJobs, AdmissionNumbers
  <2> QED  BY <1>2, <2>1, <2>2, <2>3 DEF AdmInv, Racing
<1>6. Total(c, Owners) \in Nat /\ Total(stored, Owners) \in Nat
  <2> HIDE DEF c
  <2> QED  BY <1>3, AdmissionNumbers, BytesFinite
<1>7. Peak(ledger) = Total(c, Owners) + Headroom + Control /\ Peak(ledger) <= Limit
  BY DEF Peak, AdmInv
<1> HIDE DEF c, K
<1>8. \A o \in Owners : stored[o] <= c[o] + (IF o = Shared THEN K ELSE 0)
  BY <1>2, <1>3, <1>4, <1>5 DEF Owners
<1>9. Total(stored, Owners) <= Total(c, Owners) + K
  BY <1>2, <1>3, <1>8, AdmissionNumbers, OwnersOfJobs, TotalWithOne
<1> QED  BY <1>2, <1>6, <1>7, <1>9, AdmissionNumbers DEF K

\* All that a managed writer has stored, or has on its way, is charged in the ledger, and
\* the ledger never promises more than the bucket: no lost answer, late upload, lost write,
\* kill or reconciliation gets between attempted_bytes, debits and baseline_bytes.
THEOREM ChargesCoverTheStore == AdmSpec => [](ChargesCover /\ Peak(ledger) <= Limit)
<1>1. AdmInv => ChargesCover /\ Peak(ledger) <= Limit
  BY CoveredIsCharged DEF AdmInv
<1> QED  BY <1>1, AdmissionInvariant, PTL

\* The bucket never holds more than its limit, if headroom_bytes and CONTROL_BYTES have room
\* for two objects of each job beside each other: ReservedStore.put checks the mutable keys
\* against what is stored, not against what races with it.
THEOREM TheBucketHolds ==
  ASSUME 2 * Cardinality(Jobs) <= Headroom + Control
  PROVE  AdmSpec => []BytesHold
<1>1. AdmInv => BytesHold
  BY CoveredIsCharged, HeadroomTakesTheRaces DEF AdmInv, BytesHold, ChargesCover
<1> QED  BY <1>1, AdmissionInvariant, PTL

\* Bytes are given back by a reconciliation only, made under a pause, while no job that has
\* reserved is running or has anything on its way, be its write the one the operator saw
\* succeed or one that was lost and is applied later.
THEOREM NothingIsCredited == AdmSpec => NoCredit
<1> DEFINE Credit ==
      \A o \in Managed : Charged(ledger', o) < Charged(ledger, o) =>
        /\ ledger.paused /\ ledger'.epoch = ledger.epoch + 1
        /\ \A j \in Jobs : ledger.reservation[j] # "none" => Quiet(j)
<1>1. ASSUME AdmInv, AdmNext  PROVE Credit
  <2>1. ledger \in Ledger /\ ledger.reservation \in [Jobs -> {"none", "active", "finished"}]
    BY <1>1, LedgerFields DEF AdmInv, AdmTypeOK
  <2>2. \A o \in Managed : o \in Owners /\ Charged(ledger, o) \in Nat
    BY <2>1, DebitsAreNatural DEF Owners
  <2>3. CASE LedgerKept
    BY <2>2, <2>3 DEF LedgerKept
  <2>4. CASE LedgerToggled
    <3>1. ledger' \in Ledger /\ ledger'.baseline = ledger.baseline /\ ledger'.reservation = ledger.reservation
      BY <2>1, <2>4, PausedIs DEF LedgerToggled
    <3>2. \A o \in Owners : Charged(ledger, o) = Charged(ledger', o)
      BY <2>1, <3>1, SameCharges
    <3> QED  BY <2>2, <3>2
  <2>5. CASE LedgerFinished
    <3>1. PICK j \in Jobs : ledger.reservation[j] # "none" /\ ledger' = Finished(ledger, j)
      BY <2>5 DEF LedgerFinished
    <3>2. /\ ledger' \in Ledger /\ ledger'.baseline = ledger.baseline
          /\ ledger'.reservation = [ledger.reservation EXCEPT ![j] = "finished"]
      BY <2>1, <3>1, FinishedIs
    <3>3. \A k \in Jobs : ledger.reservation[k] # "none" <=> ledger'.reservation[k] # "none"
      BY <2>1, <3>1, <3>2
    <3>4. \A o \in Owners : Charged(ledger, o) = Charged(ledger', o)
      BY <2>1, <3>2, <3>3, SameCharges
    <3> QED  BY <2>2, <3>4
  <2>6. CASE LedgerReserved
    <3>1. PICK j \in Jobs : ledger' = Reserved(ledger, j)
      BY <2>6 DEF LedgerReserved
    <3>2. /\ ledger' \in Ledger /\ ledger'.baseline = ledger.baseline
          /\ ledger'.reservation = [ledger.reservation EXCEPT ![j] = "active"]
      BY <2>1, <3>1, ReservedIs
    <3>3. \A k \in Jobs : ledger.reservation[k] # "none" => ledger'.reservation[k] # "none"
      BY <2>1, <3>2
    <3>4. \A o \in Owners : Charged(ledger, o) <= Charged(ledger', o) /\ Charged(ledger', o) \in Nat
      BY <2>1, <3>2, <3>3, ReservingCharges, DebitsAreNatural
    <3> QED  BY <2>2, <3>4
  <2>7. CASE LedgerReconciled
    <3>1. PICK w \in Write : w.base = ledger /\ ledger' = w.want /\ Reconciles(w) /\ Fenced(w)
      BY <2>7 DEF LedgerReconciled
    <3>2. ledger.paused /\ ledger'.epoch = ledger.epoch + 1
      BY <3>1, ReconcilesTo
    <3>3. \A j \in Jobs : ledger.reservation[j] # "none" => Quiet(j)
      BY <1>1, <3>1, FenceHolds DEF AdmInv
    <3> QED  BY <3>2, <3>3
  <2>8. LedgerKept \/ LedgerToggled \/ LedgerReserved \/ LedgerFinished \/ LedgerReconciled
    BY <1>1, LedgerMoves DEF AdmInv
  <2> QED  BY <2>3, <2>4, <2>5, <2>6, <2>7, <2>8
<1>2. AdmInv /\ [AdmNext]_admVars => [Credit]_admVars
  BY <1>1
<1> QED  BY <1>2, AdmissionInvariant, PTL DEF AdmSpec, NoCredit

=============================================================================
