------------------------- MODULE InstallBatchProofs -------------------------
(***************************************************************************)
(* Proofs about InstallBatch, for any apps, owners, batches, dependencies  *)
(* and bounds: a batch sets up one app at a time, the final state of a     *)
(* batch is true, and what an app needs comes first.  The last part is     *)
(* about the images an installation fetches (ImageFetch): the cache stays  *)
(* sound.                                                                  *)
(***************************************************************************)
EXTENDS InstallBatch, ImageFetch, FiniteSetTheorems, SequenceTheorems, WellFoundedInduction, TLAPS

-----------------------------------------------------------------------------
(* The inductive invariant *)

(* Where the worker, its threads and the API calls are, and what they work on. *)
Places ==
  /\ main \in {"install", "uninstall", "advance", "write", "continue", "enqueue", "cleanup"} =>
       mainBatch \in Batches
  /\ main \in {"install", "uninstall", "foreign", "advance", "write", "enqueue", "cleanup"} =>
       mainApp \in Apps
  /\ main = "install" => install[mainBatch][mainApp] = "running"
  /\ main = "uninstall" => cleanup[mainBatch][mainApp] = "running"
  /\ \A b \in Batches : resetting[b] = "enqueue" => resetApp[b] \in Apps
  /\ \A b \in Batches, x \in Apps : thread[b][x] = "enqueue" => target[b][x] \in Apps

(* The types of what the claims of a batch depend on. *)
CoreTypes ==
  /\ batch \in [Batches -> BatchStates]
  /\ item \in [Batches -> [Apps -> ItemStates]]
  /\ link \in [Batches -> [Apps -> {"none", "install", "cleanup"}]]
  /\ install \in [Batches -> [Apps -> JobStates]]
  /\ cleanup \in [Batches -> [Apps -> JobStates]]
  /\ main \in {"loop", "install", "uninstall", "foreign", "advance", "write", "continue",
               "enqueue", "cleanup"}
  /\ seen \in BatchStates
  /\ thread \in [Batches -> [Apps -> {"off", "start", "fetch", "continue", "enqueue"}]]
  /\ target \in [Batches -> [Apps -> Apps \union {NoApp}]]
  /\ resetting \in [Batches -> {"none", "write", "enqueue", "finish"}]
  /\ resetApp \in [Batches -> Apps \union {NoApp}]

(* An item nobody has claimed has no job. *)
Unclaimed ==
  \A b \in Batches, a \in Apps :
    item[b][a] \in {"none", "pending"} =>
      link[b][a] = "none" /\ install[b][a] = "absent" /\ cleanup[b][a] = "absent"

Empty == \A b \in Batches : batch[b] = "none" => Members(b) = {}

(* One caller of continue_batch at most holds a claim of a batch. *)
OneClaimant ==
  \A b \in Batches, x, y \in Apps :
    /\ thread[b][x] = "enqueue" /\ thread[b][y] = "enqueue" => x = y
    /\ ~(thread[b][x] = "enqueue" /\ main = "enqueue" /\ mainBatch = b)

(* A claim whose job is still to be created: no job of the item exists yet, and
   only begin_reset has changed the item since. *)
Promised ==
  \A b \in Batches : \A a \in Owed(b) :
    /\ item[b][a] \in {"queued", "reset"}
    /\ batch[b] = "running" => item[b][a] = "queued"
    /\ link[b][a] = "none" /\ install[b][a] = "absent" /\ cleanup[b][a] = "absent"

Working == {"queued", "resetting", "reset"}

(* While the job an item names is not over, the item is not one begin_reset
   would clear. *)
LinkedAtWork ==
  \A b \in Batches, a \in Apps :
    \/ link[b][a] = "install" /\ install[b][a] \in Live
    \/ link[b][a] = "cleanup" /\ cleanup[b][a] \in Live
    => item[b][a] \in Working

(* The outcome advance_for_job read is still the outcome when it writes. *)
Recorded ==
  main \in {"advance", "write"} =>
    /\ link[mainBatch][mainApp] # "none"
    /\ Outcome(mainBatch, mainApp) \in Over
    /\ item[mainBatch][mainApp] \in Working

(* An app about to be cleaned up, by an API thread or by the worker: nobody
   still owes it a job, and its item names none until its clean-up exists. *)
Cleaning(b, a) ==
  \/ item[b][a] = "reset_pending"
  \/ resetting[b] = "enqueue" /\ resetApp[b] = a
  \/ main = "cleanup" /\ mainBatch = b /\ mainApp = a
CleanedOnce ==
  \A b \in Batches, a \in Apps :
    Cleaning(b, a) =>
      /\ a \notin Owed(b) /\ item[b][a] \notin {"none", "pending"}
      /\ link[b][a] = "none" \/ cleanup[b][a] # "absent"

(* Before the first clean-up of a behaviour there is no trace of one, and a
   succeeded batch set up every one of its apps. *)
NoCleanupYet ==
  /\ main \notin {"cleanup", "uninstall"} /\ seen # "resetting"
  /\ \A b \in Batches :
       /\ resetting[b] = "none" /\ batch[b] \notin {"resetting", "reset", "reset_failed"}
       /\ batch[b] = "succeeded" => \A a \in Apps : item[b][a] \in {"none", "succeeded"}
       /\ \A a \in Apps :
            /\ item[b][a] \notin {"reset_pending", "resetting", "reset", "reset_failed"}
            /\ cleanup[b][a] = "absent"
Bounds == {"requests", "reorders", "pauses", "foreign", "cancels", "resets", "crashes", "events"}
FirstCleanup ==
  /\ budget \in [Bounds -> Nat] /\ budget.resets <= MaxResets
  /\ budget.resets = MaxResets => NoCleanupYet

Core ==
  /\ CoreTypes /\ Places /\ Unclaimed /\ Empty /\ OneClaimant /\ OneSetupPerBatch /\ Promised
  /\ LinkedAtWork /\ Recorded /\ CleanedOnce /\ CancelLeavesNothing /\ FirstCleanup

(* The other variables. *)
RestTypes ==
  /\ owner \in [Batches -> Owners \union {NoOwner}]
  /\ parallel \in [Batches -> 1 .. MaxParallel]
  /\ download \in [Batches -> [Apps -> {"none", "downloading", "paused", "ready"}]]
  /\ foreign \in [Apps -> JobStates]
  /\ installed \subseteq Apps /\ removed \subseteq Apps
  /\ mainBatch \in Batches \union {NoBatch} /\ mainApp \in Apps \union {NoApp}
  /\ stop \in [Batches -> [Apps -> BOOLEAN]]
  /\ asked \in [Owners -> SUBSET Apps]
  /\ cancelling \subseteq Batches

(* The numbers in use of a batch are less than the number of its items. *)
Numbering(number) ==
  /\ number \in [Batches -> [Apps -> 0 .. Cardinality(Apps) - 1]]
  /\ \A b \in Batches : \A a \in Members(b) : number[b][a] < Cardinality(Members(b))
Numbers == Numbering(ordinal) /\ Numbering(priority)

(* The step adds no item to a batch. *)
Kept == \A b \in Batches : Members(b)' = Members(b)

IInv == Core /\ RestTypes /\ Numbers

-----------------------------------------------------------------------------
(* What the operators of the model do *)

\* A value stored for one app of one batch.
LEMMA SetAt ==
  ASSUME NEW S, NEW f \in [Batches -> [Apps -> S]],
         NEW b \in Batches, NEW a \in Apps, NEW v \in S
  PROVE  /\ [f EXCEPT ![b][a] = v] \in [Batches -> [Apps -> S]]
         /\ \A c \in Batches, x \in Apps :
              [f EXCEPT ![b][a] = v][c][x] = IF c = b /\ x = a THEN v ELSE f[c][x]
OBVIOUS

\* What is spent of a bound leaves the others; only a clean-up spends a reset.
LEMMA SpendIs ==
  ASSUME FirstCleanup, NEW bound \in Bounds \ {"events"}, Spend(bound)
  PROVE  /\ budget' \in [Bounds -> Nat]
         /\ bound # "resets" => budget'.resets = budget.resets
         /\ bound = "resets" => budget'.resets < budget.resets
<1>1. /\ budget \in [Bounds -> Nat]
  BY DEF FirstCleanup
<1>2. budget.resets = budget["resets"] /\ budget'.resets = budget'["resets"] OBVIOUS
<1> QED BY <1>1, <1>2 DEF Bounds, Spend

\* A claim takes a pending item of a running batch that sets up no app.
LEMMA ClaimIs ==
  ASSUME CoreTypes, NEW b \in Batches, NEW a \in Apps, ClaimNext(b, a)
  PROVE  /\ batch' = batch /\ batch[b] = "running" /\ item[b][a] = "pending"
         /\ \A x \in Apps : item[b][x] # "queued"
         /\ item' \in [Batches -> [Apps -> ItemStates]]
         /\ \A c \in Batches, x \in Apps :
              item'[c][x] = IF c = b /\ x = a THEN "queued" ELSE item[c][x]
<1>1. /\ batch' = batch /\ batch[b] = "running" /\ item[b][a] = "pending"
      /\ \A x \in Apps : item[b][x] # "queued"
      /\ item' = [item EXCEPT ![b][a] = "queued"]
  BY DEF ClaimNext, Vacant, Queued, Ready, Pending, First
<1>2. "queued" \in ItemStates
  BY DEF ItemStates
<1> QED BY <1>1, <1>2, SetAt DEF CoreTypes

\* A batch that ends has nothing claimed, nothing pending and, if it succeeded,
\* no item that failed.
LEMMA FinishIs ==
  ASSUME CoreTypes, NEW b \in Batches, FinishBatch(b)
  PROVE  /\ item' = item /\ batch[b] = "running"
         /\ batch' \in [Batches -> BatchStates]
         /\ \A c \in Batches : c # b => batch'[c] = batch[c]
         /\ batch'[b] \in {"completed_with_failures", "succeeded"}
         /\ \A x \in Apps : item[b][x] \notin {"queued", "pending"}
         /\ batch'[b] = "succeeded" => \A x \in Apps : item[b][x] \notin FailureStates
<1>1. /\ item' = item /\ batch[b] = "running"
      /\ \A x \in Apps : item[b][x] \notin {"queued", "pending"}
      /\ batch' = [batch EXCEPT ![b] = IF \E a \in Apps : item[b][a] \in FailureStates
                                       THEN "completed_with_failures" ELSE "succeeded"]
  BY DEF FinishBatch, Vacant, Queued, Pending
<1>2. CASE \E a \in Apps : item[b][a] \in FailureStates
  <2>1. batch' = [batch EXCEPT ![b] = "completed_with_failures"] BY <1>1, <1>2
  <2> QED BY <1>1, <2>1 DEF CoreTypes, BatchStates
<1>3. CASE ~ \E a \in Apps : item[b][a] \in FailureStates
  <2>1. batch' = [batch EXCEPT ![b] = "succeeded"] BY <1>1, <1>3
  <2> QED BY <1>1, <1>3, <2>1 DEF CoreTypes, BatchStates
<1> QED BY <1>2, <1>3

\* Creating the job of a claimed app: all of it, or nothing.
LEMMA EnqueueIs ==
  ASSUME CoreTypes, NEW b \in Batches, NEW a \in Apps, Enqueue(b, a)
  PROVE  /\ install' \in [Batches -> [Apps -> JobStates]]
         /\ item' \in [Batches -> [Apps -> ItemStates]]
         /\ link' \in [Batches -> [Apps -> {"none", "install", "cleanup"}]]
         /\ batch' \in [Batches -> BatchStates]
         /\ \/ UNCHANGED <<install, item, link, batch>>
            \/ /\ \A c \in Batches, x \in Apps :
                    /\ install'[c][x] = IF c = b /\ x = a THEN "queued" ELSE install[c][x]
                    /\ item'[c][x] = IF c = b /\ x = a THEN "queued" ELSE item[c][x]
                    /\ link'[c][x] = IF c = b /\ x = a THEN "install" ELSE link[c][x]
               /\ \A c \in Batches : batch'[c] = IF c = b THEN "running" ELSE batch[c]
<1>1. CASE install[b][a] = "absent" /\ ~HasJob(a)
  <2>1. /\ install' = [install EXCEPT ![b][a] = "queued"]
        /\ item' = [item EXCEPT ![b][a] = "queued"]
        /\ link' = [link EXCEPT ![b][a] = "install"]
        /\ batch' = [batch EXCEPT ![b] = "running"]
    BY <1>1 DEF Enqueue
  <2>2. "queued" \in ItemStates /\ "queued" \in JobStates /\ "running" \in BatchStates
    BY DEF ItemStates, JobStates, Live, BatchStates
  <2>3. /\ install' \in [Batches -> [Apps -> JobStates]]
        /\ \A c \in Batches, x \in Apps :
             install'[c][x] = IF c = b /\ x = a THEN "queued" ELSE install[c][x]
    <3>1. install \in [Batches -> [Apps -> JobStates]] BY DEF CoreTypes
    <3> QED BY <2>1, <2>2, <3>1, SetAt
  <2>4. /\ item' \in [Batches -> [Apps -> ItemStates]]
        /\ \A c \in Batches, x \in Apps :
             item'[c][x] = IF c = b /\ x = a THEN "queued" ELSE item[c][x]
    BY <2>1, <2>2, SetAt DEF CoreTypes
  <2>5. /\ link' \in [Batches -> [Apps -> {"none", "install", "cleanup"}]]
        /\ \A c \in Batches, x \in Apps :
             link'[c][x] = IF c = b /\ x = a THEN "install" ELSE link[c][x]
    BY <2>1, SetAt DEF CoreTypes
  <2>6. /\ batch' \in [Batches -> BatchStates]
        /\ \A c \in Batches : batch'[c] = IF c = b THEN "running" ELSE batch[c]
    BY <2>1, <2>2 DEF CoreTypes
  <2> QED BY <2>3, <2>4, <2>5, <2>6
<1>2. CASE ~(install[b][a] = "absent" /\ ~HasJob(a))
  BY <1>2 DEF Enqueue, CoreTypes
<1> QED BY <1>1, <1>2

\* Creating the clean-up of an app that has none yet, likewise.
LEMMA EnqueueCleanupIs ==
  ASSUME CoreTypes, NEW b \in Batches, NEW a \in Apps, EnqueueCleanup(b, a)
  PROVE  /\ cleanup' \in [Batches -> [Apps -> JobStates]]
         /\ item' \in [Batches -> [Apps -> ItemStates]]
         /\ link' \in [Batches -> [Apps -> {"none", "install", "cleanup"}]]
         /\ batch' \in [Batches -> BatchStates]
         /\ \/ UNCHANGED <<cleanup, item, link, batch>>
            \/ /\ cleanup[b][a] = "absent"
               /\ \A c \in Batches, x \in Apps :
                    /\ cleanup'[c][x] = IF c = b /\ x = a THEN "queued" ELSE cleanup[c][x]
                    /\ item'[c][x] = IF c = b /\ x = a THEN "resetting" ELSE item[c][x]
                    /\ link'[c][x] = IF c = b /\ x = a THEN "cleanup" ELSE link[c][x]
               /\ \A c \in Batches : batch'[c] = IF c = b THEN "resetting" ELSE batch[c]
<1>1. CASE cleanup[b][a] = "absent" /\ ~HasJob(a)
  <2>1. /\ cleanup' = [cleanup EXCEPT ![b][a] = "queued"]
        /\ item' = [item EXCEPT ![b][a] = "resetting"]
        /\ link' = [link EXCEPT ![b][a] = "cleanup"]
        /\ batch' = [batch EXCEPT ![b] = "resetting"]
    BY <1>1 DEF EnqueueCleanup
  <2>2. "resetting" \in ItemStates /\ "queued" \in JobStates /\ "resetting" \in BatchStates
    BY DEF ItemStates, JobStates, Live, BatchStates
  <2>3. /\ cleanup' \in [Batches -> [Apps -> JobStates]]
        /\ \A c \in Batches, x \in Apps :
             cleanup'[c][x] = IF c = b /\ x = a THEN "queued" ELSE cleanup[c][x]
    BY <2>1, <2>2, SetAt DEF CoreTypes
  <2>4. /\ item' \in [Batches -> [Apps -> ItemStates]]
        /\ \A c \in Batches, x \in Apps :
             item'[c][x] = IF c = b /\ x = a THEN "resetting" ELSE item[c][x]
    BY <2>1, <2>2, SetAt DEF CoreTypes
  <2>5. /\ link' \in [Batches -> [Apps -> {"none", "install", "cleanup"}]]
        /\ \A c \in Batches, x \in Apps :
             link'[c][x] = IF c = b /\ x = a THEN "cleanup" ELSE link[c][x]
    BY <2>1, SetAt DEF CoreTypes
  <2>6. /\ batch' \in [Batches -> BatchStates]
        /\ \A c \in Batches : batch'[c] = IF c = b THEN "resetting" ELSE batch[c]
    BY <2>1, <2>2 DEF CoreTypes
  <2> QED BY <1>1, <2>3, <2>4, <2>5, <2>6
<1>2. CASE ~(cleanup[b][a] = "absent" /\ ~HasJob(a))
  BY <1>2 DEF EnqueueCleanup, CoreTypes
<1> QED BY <1>1, <1>2

-----------------------------------------------------------------------------
(* The numbers of the items *)

\* A set of naturals has a least element.
LEMMA Least ==
  ASSUME NEW T, T \subseteq Nat, T # {}
  PROVE  \E n \in T : \A m \in T : n <= m
<1> DEFINE R == StrictSubsetOrdering(Nat)
<1> DEFINE I == {0 .. n : n \in T}
<1>1. IsWellFoundedOn(R, FiniteSubsetsOf(Nat))
  BY FS_StrictSubsetOrderingWellFounded
<1>2. I \subseteq FiniteSubsetsOf(Nat)
  <2>1. \A n \in Nat : IsFiniteSet(0 .. n) BY FS_Interval
  <2> QED BY <2>1 DEF FiniteSubsetsOf
<1>3. I # {}
  OBVIOUS
<1>4. \A m, n \in Nat : m < n => <<0 .. m, 0 .. n>> \in R
  <2> TAKE m, n \in Nat
  <2>1. HAVE m < n
  <2>2. 0 .. m \in SUBSET Nat /\ 0 .. n \in SUBSET Nat /\ 0 .. m \subseteq 0 .. n
    BY <2>1
  <2>3. n \in 0 .. n /\ n \notin 0 .. m
    BY <2>1
  <2> QED BY <2>2, <2>3 DEF StrictSubsetOrdering
<1> HIDE DEF R
<1>5. \E x \in I : \A y \in I : ~ (<<y, x>> \in R)
  <2> HIDE DEF I
  <2> QED BY <1>1, <1>2, <1>3, WFMin
<1>6. PICK n \in T : \A m \in T : ~ (<<0 .. m, 0 .. n>> \in R)
  BY <1>5
<1>7. ASSUME NEW m \in T, m < n PROVE FALSE
  <2>1. m \in Nat /\ n \in Nat
    OBVIOUS
  <2>2. <<0 .. m, 0 .. n>> \in R
    BY <1>4, <1>7, <2>1
  <2> QED BY <1>6, <2>2
<1>8. n \in Nat /\ \A m \in T : m \in Nat
  OBVIOUS
<1> QED BY <1>7, <1>8

\* What follows the greatest number in use is greater than all of them, and no
\* greater than their count when none of them exceeds it.
LEMMA NextNumberIs ==
  ASSUME NEW used \in SUBSET Apps, NEW number,
         \A a \in used : number[a] \in Nat /\ number[a] < Cardinality(used)
  PROVE  NextNumber(number, used) \in 0 .. Cardinality(used)
<1> DEFINE Good(n) == /\ \A a \in used : number[a] < n
                      /\ n = 0 \/ \E a \in used : number[a] = n - 1
<1> DEFINE T == {n \in Nat : \A a \in used : number[a] < n}
<1>1. /\ Cardinality(used) \in Nat /\ Cardinality(Apps) \in Nat
      /\ Cardinality(used) <= Cardinality(Apps)
  BY BoundAssumption, FS_CardinalityType, FS_Subset
<1>2. Cardinality(used) \in T
  BY <1>1
<1>3. PICK n \in T : \A m \in T : n <= m
  <2> HIDE DEF T
  <2>1. T \subseteq Nat BY DEF T
  <2> QED BY <1>2, <2>1, Least
<1>4. Good(n)
  <2>1. CASE n = 0 BY <2>1
  <2>2. CASE n # 0
    <3>1. n - 1 \in Nat /\ n - 1 \notin T BY <1>3, <2>2
    <3>2. PICK a \in used : ~(number[a] < n - 1) BY <3>1
    <3>3. number[a] = n - 1 BY <3>1, <3>2
    <3> QED BY <3>3
  <2> QED BY <2>1, <2>2
<1>5. n \in 0 .. Cardinality(Apps)
  BY <1>1, <1>2, <1>3
<1>6. PICK k \in 0 .. Cardinality(Apps) : k = NextNumber(number, used) /\ Good(k)
  BY <1>4, <1>5 DEF NextNumber
<1>7. CASE k = 0
  BY <1>1, <1>6, <1>7
<1>8. CASE k # 0
  <2>1. PICK a \in used : number[a] = k - 1 BY <1>6, <1>8
  <2>2. k - 1 < Cardinality(used) BY <2>1
  <2> QED BY <1>1, <1>6, <2>2
<1> QED BY <1>7, <1>8

\* The numbers of appended items follow those in use.
LEMMA RankedIs ==
  ASSUME NEW b \in Batches, NEW fresh \in SUBSET Apps, fresh \intersect Members(b) = {},
         NEW rank \in Ranks(fresh), NEW number,
         \A a \in Members(b) : number[a] \in Nat /\ number[a] < Cardinality(Members(b))
  PROVE  LET all == Members(b) \union fresh IN
         /\ Cardinality(all) \in Nat /\ Cardinality(all) <= Cardinality(Apps)
         /\ Cardinality(Members(b)) <= Cardinality(all)
         /\ \A a \in fresh :
              LET n == NextNumber(number, Members(b)) + rank[a] IN n \in Nat /\ n < Cardinality(all)
<1>1. Members(b) \in SUBSET Apps
  BY DEF Members
<1>2. /\ IsFiniteSet(Members(b)) /\ IsFiniteSet(fresh) /\ Cardinality(Apps) \in Nat
      /\ Cardinality(Members(b)) \in Nat /\ Cardinality(fresh) \in Nat
  BY <1>1, BoundAssumption, FS_CardinalityType, FS_Subset
<1>3. Cardinality(Members(b) \union fresh) = Cardinality(Members(b)) + Cardinality(fresh)
  <2>1. Members(b) \intersect fresh = {} /\ Cardinality({}) = 0
    BY FS_EmptySet
  <2> QED BY <1>2, <2>1, FS_Union
<1>4. Cardinality(Members(b) \union fresh) <= Cardinality(Apps)
  <2>1. Members(b) \union fresh \in SUBSET Apps
    BY <1>1
  <2> QED BY <2>1, BoundAssumption, FS_Subset
<1>5. NextNumber(number, Members(b)) \in 0 .. Cardinality(Members(b))
  BY <1>1, NextNumberIs
<1>6. \A a \in fresh : rank[a] \in 0 .. Cardinality(fresh) - 1
  BY DEF Ranks
<1>7. ASSUME NEW a \in fresh
      PROVE  LET n == NextNumber(number, Members(b)) + rank[a]
             IN  n \in Nat /\ n < Cardinality(Members(b) \union fresh)
  <2>1. /\ rank[a] \in Nat /\ rank[a] < Cardinality(fresh)
        /\ NextNumber(number, Members(b)) \in Nat
        /\ NextNumber(number, Members(b)) <= Cardinality(Members(b))
    BY <1>2, <1>5, <1>6
  <2> QED BY <1>2, <1>3, <2>1
<1>8. Cardinality(Members(b)) <= Cardinality(Members(b) \union fresh)
      /\ Cardinality(Members(b) \union fresh) \in Nat
  BY <1>2, <1>3
<1> QED BY <1>4, <1>7, <1>8

\* Appending items numbers them after those of the batch.
LEMMA AppendedIs ==
  ASSUME CoreTypes, asked \in [Owners -> SUBSET Apps], NEW b \in Batches, NEW o \in Owners,
         NEW n, Add(b, asked[o] \ Members(b), n),
         Numbering(ordinal), Numbering(priority)
  PROVE  Numbering(ordinal)' /\ Numbering(priority)'
<1> DEFINE fresh == asked[o] \ Members(b)
<1>1. PICK rank \in Ranks(fresh) :
        LET first == NextNumber(ordinal[b], Members(b))
            last == NextNumber(priority[b], Members(b))
        IN
        /\ item' = [item EXCEPT ![b] = [a \in Apps |-> IF a \in fresh THEN "pending" ELSE @[a]]]
        /\ ordinal' = [ordinal EXCEPT ![b] =
             [a \in Apps |-> IF a \in fresh THEN first + rank[a] ELSE @[a]]]
        /\ priority' = [priority EXCEPT ![b] =
             [a \in Apps |-> IF a \in fresh THEN last + rank[a] ELSE @[a]]]
  BY DEF Add
<1>2. fresh \in SUBSET Apps /\ fresh \intersect Members(b) = {}
  OBVIOUS
<1> HIDE DEF fresh
<1>3. /\ \A c \in Batches : c # b => Members(c)' = Members(c)
      /\ Members(b)' = Members(b) \union fresh
  <2>1. item \in [Batches -> [Apps -> ItemStates]] BY DEF CoreTypes
  <2>2. \A c \in Batches : c # b => item'[c] = item[c]
    BY <1>1, <2>1
  <2>3. \A y \in Apps : item'[b][y] = IF y \in fresh THEN "pending" ELSE item[b][y]
    BY <1>1, <2>1
  <2> QED BY <1>2, <2>2, <2>3 DEF Members
<1>4. ASSUME NEW number, NEW numbered, Numbering(number),
             numbered = [number EXCEPT ![b] =
               [a \in Apps |-> IF a \in fresh
                                 THEN NextNumber(number[b], Members(b)) + rank[a] ELSE @[a]]]
      PROVE  /\ numbered \in [Batches -> [Apps -> 0 .. Cardinality(Apps) - 1]]
             /\ \A c \in Batches : \A a \in Members(c)' : numbered[c][a] < Cardinality(Members(c)')
  <2>1. /\ number \in [Batches -> [Apps -> 0 .. Cardinality(Apps) - 1]]
        /\ \A c \in Batches : \A a \in Members(c) : number[c][a] < Cardinality(Members(c))
    BY <1>4 DEF Numbering
  <2>2. \A a \in Members(b) : number[b][a] \in Nat /\ number[b][a] < Cardinality(Members(b))
    BY <2>1 DEF Members
  <2>3. LET all == Members(b) \union fresh IN
        /\ Cardinality(all) \in Nat /\ Cardinality(all) <= Cardinality(Apps)
        /\ Cardinality(Members(b)) <= Cardinality(all)
        /\ \A a \in fresh :
             LET k == NextNumber(number[b], Members(b)) + rank[a]
             IN  k \in Nat /\ k < Cardinality(all)
    BY <1>2, <2>2, RankedIs
  <2>4. Cardinality(Apps) \in Nat /\ Cardinality(Members(b)) \in Nat
    <3>1. Members(b) \in SUBSET Apps BY DEF Members
    <3> QED BY <3>1, BoundAssumption, FS_CardinalityType, FS_Subset
  <2>5. [a \in Apps |-> IF a \in fresh
                        THEN NextNumber(number[b], Members(b)) + rank[a] ELSE number[b][a]]
          \in [Apps -> 0 .. Cardinality(Apps) - 1]
    <3>1. ASSUME NEW a \in fresh
          PROVE  NextNumber(number[b], Members(b)) + rank[a] \in 0 .. Cardinality(Apps) - 1
      <4> DEFINE k == NextNumber(number[b], Members(b)) + rank[a]
      <4>1. k \in Nat /\ k < Cardinality(Members(b) \union fresh) BY <2>3
      <4> HIDE DEF k
      <4>2. k \in 0 .. Cardinality(Apps) - 1 BY <2>3, <2>4, <4>1
      <4> QED BY <4>2 DEF k
    <3>2. \A a \in Apps : number[b][a] \in 0 .. Cardinality(Apps) - 1 BY <2>1
    <3> QED BY <3>1, <3>2
  <2>6. numbered \in [Batches -> [Apps -> 0 .. Cardinality(Apps) - 1]]
    BY <1>4, <2>1, <2>5
  <2>7. \A c \in Batches : c # b => numbered[c] = number[c]
    BY <1>4, <2>1
  <2>8. \A a \in Apps : numbered[b][a] =
          IF a \in fresh THEN NextNumber(number[b], Members(b)) + rank[a] ELSE number[b][a]
    BY <1>4, <2>1
  <2>9. \A a \in Members(b) \union fresh : numbered[b][a] < Cardinality(Members(b) \union fresh)
    <3>1. ASSUME NEW a \in fresh
          PROVE  numbered[b][a] < Cardinality(Members(b) \union fresh)
      BY <1>2, <2>3, <2>8
    <3>2. ASSUME NEW a \in Members(b), a \notin fresh
          PROVE  numbered[b][a] < Cardinality(Members(b) \union fresh)
      <4>1. a \in Apps BY DEF Members
      <4> QED BY <2>2, <2>3, <2>4, <2>8, <3>2, <4>1
    <3> QED BY <3>1, <3>2
  <2> QED BY <1>3, <2>1, <2>6, <2>7, <2>9
<1>5. Numbering(ordinal)'
  BY <1>1, <1>4 DEF Numbering
<1>6. Numbering(priority)'
  BY <1>1, <1>4 DEF Numbering
<1> QED BY <1>5, <1>6

\* A reordering gives the listed items numbers below their count.
LEMMA ReorderedIs ==
  ASSUME CoreTypes, NEW b \in Batches, NEW listed \in SUBSET Apps, Reorder(b, listed),
         Numbering(priority)
  PROVE  Numbering(priority)'
<1>1. PICK position \in [listed -> 0 .. Cardinality(listed) - 1] :
        /\ listed \subseteq Members(b)
        /\ priority' = [priority EXCEPT ![b] =
             [a \in Apps |-> IF a \in listed \intersect Pending(b) THEN position[a] ELSE @[a]]]
  BY DEF Reorder
<1>2. \A c \in Batches : Members(c)' = Members(c)
  BY DEF Reorder, Members
<1>3. /\ Cardinality(Apps) \in Nat /\ Cardinality(Members(b)) \in Nat /\ Cardinality(listed) \in Nat
      /\ Cardinality(listed) <= Cardinality(Members(b))
      /\ Cardinality(Members(b)) <= Cardinality(Apps)
  <2>1. Members(b) \in SUBSET Apps /\ listed \in SUBSET Members(b) BY <1>1 DEF Members
  <2>2. IsFiniteSet(Members(b)) BY <2>1, BoundAssumption, FS_Subset
  <2> QED BY <2>1, <2>2, BoundAssumption, FS_CardinalityType, FS_Subset
<1>4. priority \in [Batches -> [Apps -> 0 .. Cardinality(Apps) - 1]]
  BY DEF Numbering
<1>5. \A a \in listed : position[a] \in 0 .. Cardinality(Apps) - 1
                        /\ position[a] < Cardinality(Members(b))
  BY <1>3
<1>6. [a \in Apps |-> IF a \in listed \intersect Pending(b) THEN position[a] ELSE priority[b][a]]
        \in [Apps -> 0 .. Cardinality(Apps) - 1]
  BY <1>4, <1>5
<1>7. priority' \in [Batches -> [Apps -> 0 .. Cardinality(Apps) - 1]]
  BY <1>1, <1>4, <1>6
<1>8. \A c \in Batches : c # b => priority'[c] = priority[c]
  BY <1>1, <1>4
<1>9. \A a \in Apps : priority'[b][a] =
        IF a \in listed \intersect Pending(b) THEN position[a] ELSE priority[b][a]
  BY <1>1, <1>4
<1>10. \A a \in Members(b) : priority'[b][a] < Cardinality(Members(b))
  <2>1. Members(b) \subseteq Apps BY DEF Members
  <2> QED BY <1>5, <1>9, <2>1 DEF Numbering
<1> QED BY <1>2, <1>7, <1>8, <1>10 DEF Numbering

-----------------------------------------------------------------------------
(* The invariant of the claims, step by step *)

\* A step that writes nothing the claims of a batch depend on.
LEMMA ElsewhereCore ==
  ASSUME Core,
         UNCHANGED <<batch, item, link, install, cleanup, main, mainBatch, mainApp, seen, thread,
                     target, resetting, resetApp>>,
         budget' \in [Bounds -> Nat] /\ budget'.resets = budget.resets
  PROVE  Core' /\ Kept
<1>1. CoreTypes
  BY DEF Core
<1>2. FirstCleanup'
  BY DEF Core, FirstCleanup, NoCleanupYet, Members, FailureStates
<1>3. /\ CoreTypes' /\ Places' /\ Unclaimed' /\ Empty' /\ OneClaimant' /\ OneSetupPerBatch'
      /\ Promised' /\ LinkedAtWork' /\ Recorded' /\ CleanedOnce' /\ CancelLeavesNothing'
  BY DEF Core, CoreTypes, Places, Unclaimed, Empty, Members, OneClaimant, OneSetupPerBatch,
     Claimed, Queued, Owed, Promised, LinkedAtWork, Recorded, Outcome, CleanedOnce, Cleaning,
     CancelLeavesNothing, Pending
<1>4. Kept
  BY DEF Kept, Members
<1> QED BY <1>2, <1>3, <1>4 DEF Core

\* A download thread that is started, goes on with its download or gives it up claims
\* nothing.
LEMMA ThreadMovesCore ==
  ASSUME NEW b \in Batches, NEW a \in Apps, NEW place \in {"off", "start", "fetch", "continue"},
         Core,
         thread[b][a] # "enqueue", thread' = [thread EXCEPT ![b][a] = place],
         UNCHANGED <<batch, item, link, install, cleanup, main, mainBatch, mainApp, seen, target,
                     resetting, resetApp, budget>>
  PROVE  Core' /\ Kept
<1>1. CoreTypes
  BY DEF Core
<1>2. thread' \in [Batches -> [Apps -> {"off", "start", "fetch", "continue", "enqueue"}]]
  BY <1>1, SetAt DEF CoreTypes
<1>3. \A c \in Batches, y \in Apps :
        thread'[c][y] = IF c = b /\ y = a THEN place ELSE thread[c][y]
  BY <1>1, SetAt DEF CoreTypes
<1>4. \A c \in Batches : Owed(c)' \subseteq Owed(c) /\ Owed(c) \subseteq Apps
  BY <1>3 DEF Owed
<1>5. CoreTypes'
  BY <1>1, <1>2 DEF CoreTypes
<1>6. Places'
  BY <1>3 DEF Core, Places
<1>7. OneClaimant'
  BY <1>3 DEF Core, OneClaimant
<1>8. OneSetupPerBatch'
  BY <1>3, <1>4 DEF Core, OneSetupPerBatch, Claimed, Queued
<1>9. Promised'
  BY <1>3, <1>4 DEF Core, Promised
<1>10. CleanedOnce'
  BY <1>3, <1>4 DEF Core, CleanedOnce, Cleaning
<1>11. Unclaimed' /\ Empty' /\ LinkedAtWork' /\ Recorded' /\ CancelLeavesNothing' /\ FirstCleanup'
  BY DEF Core, Unclaimed, Empty, Members, LinkedAtWork, Recorded, Outcome, CancelLeavesNothing,
     Pending, FirstCleanup, NoCleanupYet
<1>12. Kept
  BY DEF Kept, Members
<1> QED BY <1>5, <1>6, <1>7, <1>8, <1>9, <1>10, <1>11, <1>12 DEF Core

\* A download thread claims the next app: nobody else owes the batch a job, since
\* the item of whoever does is queued.
LEMMA ThreadClaimsCore ==
  ASSUME NEW b \in Batches, NEW a \in Apps, NEW x \in Apps, Core,
         ClaimNext(b, x), thread[b][a] = "continue",
         thread' = [thread EXCEPT ![b][a] = "enqueue"], target' = [target EXCEPT ![b][a] = x],
         UNCHANGED <<link, install, cleanup, main, mainBatch, mainApp, seen, resetting, resetApp,
                     budget>>
  PROVE  Core' /\ Kept
<1>1. CoreTypes
  BY DEF Core
<1>2. item' \in [Batches -> [Apps -> ItemStates]]
  BY <1>1, ClaimIs
<1>3. /\ batch' = batch /\ batch[b] = "running" /\ item[b][x] = "pending"
      /\ \A y \in Apps : item[b][y] # "queued"
      /\ \A c \in Batches, y \in Apps :
           item'[c][y] = IF c = b /\ y = x THEN "queued" ELSE item[c][y]
  BY <1>1, ClaimIs
<1>4. thread' \in [Batches -> [Apps -> {"off", "start", "fetch", "continue", "enqueue"}]]
  BY <1>1, SetAt DEF CoreTypes
<1>5. \A c \in Batches, y \in Apps :
        thread'[c][y] = IF c = b /\ y = a THEN "enqueue" ELSE thread[c][y]
  BY <1>1, SetAt DEF CoreTypes
<1>6. target' \in [Batches -> [Apps -> Apps \union {NoApp}]]
  BY <1>1, SetAt DEF CoreTypes
<1>7. \A c \in Batches, y \in Apps :
        target'[c][y] = IF c = b /\ y = a THEN x ELSE target[c][y]
  BY <1>1, SetAt DEF CoreTypes
<1>8. \A c \in Batches :
        /\ Owed(c) \subseteq Apps
        /\ Owed(c)' \subseteq IF c = b THEN Owed(b) \union {x} ELSE Owed(c)
  BY <1>3, <1>5, <1>7 DEF Owed
<1>9. /\ Owed(b) = {}
      /\ \A y \in Apps : thread[b][y] # "enqueue"
      /\ ~(main = "enqueue" /\ mainBatch = b)
  BY <1>3, <1>5, <1>7, <1>8 DEF Core, Promised, Owed, Places
<1>10. CoreTypes'
  BY <1>1, <1>2, <1>3, <1>4, <1>6, <1>9 DEF CoreTypes
<1>11. Places'
  BY <1>5, <1>7 DEF Core, Places
<1>12. Unclaimed'
  BY <1>3 DEF Core, Unclaimed
<1>13. Empty'
  BY <1>3 DEF Core, Empty, Members
<1>14. OneClaimant'
  BY <1>3, <1>5, <1>7, <1>8, <1>9 DEF Core, OneClaimant, Promised
<1>15. OneSetupPerBatch'
  BY <1>3, <1>5, <1>7, <1>8, <1>9 DEF Core, OneSetupPerBatch, Claimed, Queued, Promised
<1>16. Promised'
  BY <1>3, <1>5, <1>7, <1>8, <1>9 DEF Core, Promised, Unclaimed
<1>17. LinkedAtWork'
  BY <1>3 DEF Core, LinkedAtWork, Live, Working
<1>18. Recorded'
  BY <1>3 DEF Core, Recorded, Outcome, Places, Over, Working
<1>19. CleanedOnce'
  BY <1>3, <1>5, <1>7, <1>8, <1>9 DEF Core, CleanedOnce, Cleaning
<1>20. CancelLeavesNothing'
  BY <1>3 DEF Core, CancelLeavesNothing, Pending
<1>21. FirstCleanup'
  BY <1>3 DEF Core, FirstCleanup, NoCleanupYet, Members, FailureStates
<1>22. Kept
  BY <1>3, <1>9 DEF Kept, Members
<1> QED
  BY <1>10, <1>11, <1>12, <1>13, <1>14, <1>15, <1>16, <1>17, <1>18, <1>19, <1>20, <1>21, <1>22
     DEF Core

\* A download thread finds nothing to claim, or ends the batch.
LEMMA ThreadStopsCore ==
  ASSUME NEW b \in Batches, NEW a \in Apps, Core,
         FinishBatch(b) \/ NothingToClaim(b), thread[b][a] = "continue",
         thread' = [thread EXCEPT ![b][a] = "off"],
         UNCHANGED <<link, install, cleanup, main, mainBatch, mainApp, seen, target, resetting,
                     resetApp, budget>>
  PROVE  Core' /\ Kept
<1>1. CoreTypes
  BY DEF Core
<1>2. /\ item' = item /\ batch' \in [Batches -> BatchStates]
      /\ \A c \in Batches :
           \/ batch'[c] = batch[c]
           \/ /\ batch[c] = "running" /\ batch'[c] \in {"completed_with_failures", "succeeded"}
              /\ \A y \in Apps : item[c][y] \notin {"queued", "pending"}
              /\ batch'[c] = "succeeded" => \A y \in Apps : item[c][y] \notin FailureStates
  BY <1>1, FinishIs DEF NothingToClaim, CoreTypes
<1>3. thread' \in [Batches -> [Apps -> {"off", "start", "fetch", "continue", "enqueue"}]]
  BY <1>1, SetAt DEF CoreTypes
<1>4. \A c \in Batches, y \in Apps :
        thread'[c][y] = IF c = b /\ y = a THEN "off" ELSE thread[c][y]
  BY <1>1, SetAt DEF CoreTypes
<1>5. \A c \in Batches : Owed(c)' \subseteq Owed(c) /\ Owed(c) \subseteq Apps
  BY <1>2, <1>4 DEF Owed
<1>6. \A c \in Batches, y \in Apps : item[c][y] \in ItemStates
  BY <1>1 DEF CoreTypes
<1>7. CoreTypes'
  BY <1>1, <1>2, <1>3 DEF CoreTypes
<1>8. Places'
  BY <1>4, <1>6 DEF Core, Places
<1>9. Unclaimed'
  BY <1>2, <1>6 DEF Core, Unclaimed
<1>10. Empty'
  BY <1>2, <1>6 DEF Core, Empty, Members
<1>11. OneClaimant'
  BY <1>4, <1>6 DEF Core, OneClaimant
<1>12. OneSetupPerBatch'
  BY <1>2, <1>4, <1>5, <1>6 DEF Core, OneSetupPerBatch, Claimed, Queued
<1>13. Promised'
  BY <1>2, <1>4, <1>5, <1>6 DEF Core, Promised
<1>14. LinkedAtWork'
  BY <1>2, <1>6 DEF Core, LinkedAtWork, Live, Working
<1>15. Recorded'
  BY <1>2, <1>6 DEF Core, Recorded, Outcome, Places, Over, Working
<1>16. CleanedOnce'
  BY <1>2, <1>4, <1>5, <1>6 DEF Core, CleanedOnce, Cleaning
<1>17. CancelLeavesNothing'
  BY <1>2, <1>6 DEF Core, CancelLeavesNothing, Pending
<1>18. FirstCleanup'
  BY <1>2, <1>6 DEF Core, FirstCleanup, NoCleanupYet, Members, ItemStates, FailureStates
<1>19. Kept
  BY <1>2, <1>6 DEF Kept, Members
<1> QED
  BY <1>7, <1>8, <1>9, <1>10, <1>11, <1>12, <1>13, <1>14, <1>15, <1>16, <1>17, <1>18, <1>19
     DEF Core

\* The main thread claims the next app, after a job or when it reconciles: nobody
\* else owes the batch a job.
LEMMA MainClaimsCore ==
  ASSUME NEW b \in Batches, NEW x \in Apps, Core,
         ClaimNext(b, x), main \in {"loop", "continue"}, At("enqueue", b, x),
         UNCHANGED <<link, install, cleanup, seen, thread, target, resetting, resetApp, budget>>
  PROVE  Core' /\ Kept
<1>1. CoreTypes
  BY DEF Core
<1>2. item' \in [Batches -> [Apps -> ItemStates]]
  BY <1>1, ClaimIs
<1>3. /\ batch' = batch /\ batch[b] = "running" /\ item[b][x] = "pending"
      /\ \A y \in Apps : item[b][y] # "queued"
      /\ \A c \in Batches, y \in Apps :
           item'[c][y] = IF c = b /\ y = x THEN "queued" ELSE item[c][y]
  BY <1>1, ClaimIs
<1>4. main' = "enqueue" /\ mainBatch' = b /\ mainApp' = x
  BY <1>1 DEF At
<1>5. \A c \in Batches :
        /\ Owed(c) \subseteq Apps
        /\ Owed(c)' \subseteq IF c = b THEN Owed(b) \union {x} ELSE Owed(c)
  BY <1>3, <1>4 DEF Owed
<1>6. /\ Owed(b) = {}
      /\ \A y \in Apps : thread[b][y] # "enqueue"
      /\ ~(main = "enqueue" /\ mainBatch = b)
  BY <1>3, <1>4, <1>5 DEF Core, Promised, Owed, Places
<1>7. CoreTypes'
  BY <1>1, <1>2, <1>3, <1>4, <1>6 DEF CoreTypes
<1>8. Places'
  BY <1>4 DEF Core, Places
<1>9. Unclaimed'
  BY <1>3 DEF Core, Unclaimed
<1>10. Empty'
  BY <1>3 DEF Core, Empty, Members
<1>11. OneClaimant'
  BY <1>3, <1>4, <1>5, <1>6 DEF Core, OneClaimant, Promised
<1>12. OneSetupPerBatch'
  BY <1>3, <1>4, <1>5, <1>6 DEF Core, OneSetupPerBatch, Claimed, Queued, Promised
<1>13. Promised'
  BY <1>3, <1>4, <1>5, <1>6 DEF Core, Promised, Unclaimed
<1>14. LinkedAtWork'
  BY <1>3 DEF Core, LinkedAtWork, Live, Working
<1>15. Recorded'
  BY <1>3, <1>4 DEF Core, Recorded, Outcome, Places, Over, Working
<1>16. CleanedOnce'
  BY <1>3, <1>4, <1>5, <1>6 DEF Core, CleanedOnce, Cleaning
<1>17. CancelLeavesNothing'
  BY <1>3 DEF Core, CancelLeavesNothing, Pending
<1>18. FirstCleanup'
  BY <1>3, <1>4 DEF Core, FirstCleanup, NoCleanupYet, Members, FailureStates
<1>19. Kept
  BY <1>3, <1>6 DEF Kept, Members
<1> QED
  BY <1>7, <1>8, <1>9, <1>10, <1>11, <1>12, <1>13, <1>14, <1>15, <1>16, <1>17, <1>18, <1>19
     DEF Core

\* The main thread finds nothing to claim, or ends the batch.
LEMMA MainStopsCore ==
  ASSUME NEW b \in Batches, Core,
         FinishBatch(b) \/ NothingToClaim(b), main \in {"loop", "continue"},
         main' = "loop", seen' \in {seen, "none"},
         UNCHANGED <<link, install, cleanup, thread, target, resetting, resetApp, budget>>
  PROVE  Core' /\ Kept
<1>1. CoreTypes
  BY DEF Core
<1>2. /\ item' = item /\ batch' \in [Batches -> BatchStates]
      /\ \A c \in Batches :
           \/ batch'[c] = batch[c]
           \/ /\ batch[c] = "running" /\ batch'[c] \in {"completed_with_failures", "succeeded"}
              /\ \A y \in Apps : item[c][y] \notin {"queued", "pending"}
              /\ batch'[c] = "succeeded" => \A y \in Apps : item[c][y] \notin FailureStates
  BY <1>1, FinishIs DEF NothingToClaim, CoreTypes
<1>3. \A c \in Batches : Owed(c)' \subseteq Owed(c) /\ Owed(c) \subseteq Apps
  BY <1>2 DEF Owed
<1>4. \A c \in Batches, y \in Apps : item[c][y] \in ItemStates
  BY <1>1 DEF CoreTypes
<1>5. CoreTypes'
  BY <1>1, <1>2 DEF CoreTypes, BatchStates
<1>6. Places'
  BY <1>4 DEF Core, Places
<1>7. Unclaimed'
  BY <1>2, <1>4 DEF Core, Unclaimed
<1>8. Empty'
  BY <1>2, <1>4 DEF Core, Empty, Members
<1>9. OneClaimant'
  BY <1>4 DEF Core, OneClaimant
<1>10. OneSetupPerBatch'
  BY <1>2, <1>3, <1>4 DEF Core, OneSetupPerBatch, Claimed, Queued
<1>11. Promised'
  BY <1>2, <1>3, <1>4 DEF Core, Promised
<1>12. LinkedAtWork'
  BY <1>2, <1>4 DEF Core, LinkedAtWork, Live, Working
<1>13. Recorded'
  BY <1>2, <1>4 DEF Core, Recorded, Outcome, Places, Over, Working
<1>14. CleanedOnce'
  BY <1>2, <1>3, <1>4 DEF Core, CleanedOnce, Cleaning
<1>15. CancelLeavesNothing'
  BY <1>2, <1>4 DEF Core, CancelLeavesNothing, Pending
<1>16. FirstCleanup'
  BY <1>2, <1>4 DEF Core, FirstCleanup, NoCleanupYet, Members, ItemStates, FailureStates
<1>17. Kept
  BY <1>2, <1>4 DEF Kept, Members
<1> QED
  BY <1>5, <1>6, <1>7, <1>8, <1>9, <1>10, <1>11, <1>12, <1>13, <1>14, <1>15, <1>16, <1>17 DEF Core

\* A download thread creates the job of the app it claimed, the only app of the
\* batch that is set up, also when the batch was reset since.
LEMMA ThreadEnqueueCore ==
  ASSUME NEW b \in Batches, NEW a \in Apps, Core, ThreadEnqueue(b, a)
  PROVE  Core' /\ Kept
<1>1. CoreTypes
  BY DEF Core
<1>2. UNCHANGED <<cleanup, main, mainBatch, mainApp, seen, resetting, resetApp, budget>>
  BY DEF ThreadEnqueue, worker, api
<1>3. target[b][a] \in Apps /\ thread[b][a] = "enqueue"
  BY <1>1 DEF Core, ThreadEnqueue, Places
<1>4. /\ install' \in [Batches -> [Apps -> JobStates]]
      /\ item' \in [Batches -> [Apps -> ItemStates]]
      /\ link' \in [Batches -> [Apps -> {"none", "install", "cleanup"}]]
      /\ batch' \in [Batches -> BatchStates]
  BY <1>1, <1>3, EnqueueIs DEF ThreadEnqueue
<1>5. \/ UNCHANGED <<install, item, link, batch>>
      \/ /\ \A c \in Batches, y \in Apps :
              /\ install'[c][y] = IF c = b /\ y = target[b][a] THEN "queued" ELSE install[c][y]
              /\ item'[c][y] = IF c = b /\ y = target[b][a] THEN "queued" ELSE item[c][y]
              /\ link'[c][y] = IF c = b /\ y = target[b][a] THEN "install" ELSE link[c][y]
         /\ \A c \in Batches : batch'[c] = IF c = b THEN "running" ELSE batch[c]
  BY <1>1, <1>3, EnqueueIs DEF ThreadEnqueue
<1>6. thread' \in [Batches -> [Apps -> {"off", "start", "fetch", "continue", "enqueue"}]]
  BY <1>1, SetAt DEF ThreadEnqueue, CoreTypes
<1>7. \A c \in Batches, y \in Apps :
        thread'[c][y] = IF c = b /\ y = a THEN "off" ELSE thread[c][y]
  BY <1>1, SetAt DEF ThreadEnqueue, CoreTypes
<1>8. target' \in [Batches -> [Apps -> Apps \union {NoApp}]]
  BY <1>1, SetAt DEF ThreadEnqueue, CoreTypes
<1>9. \A c \in Batches, y \in Apps :
        target'[c][y] = IF c = b /\ y = a THEN NoApp ELSE target[c][y]
  BY <1>1, SetAt DEF ThreadEnqueue, CoreTypes
<1>10. /\ \A c \in Batches : Owed(c)' \subseteq Owed(c) /\ Owed(c) \subseteq Apps
       /\ target[b][a] \in Owed(b) /\ target[b][a] \notin Owed(b)'
  BY <1>2, <1>3, <1>5, <1>7, <1>9 DEF Core, OneClaimant, Owed
<1>11. CoreTypes'
  BY <1>1, <1>2, <1>3, <1>4, <1>5, <1>6, <1>8, <1>10 DEF CoreTypes
<1>12. Places'
  BY <1>2, <1>3, <1>5, <1>7, <1>9, <1>10 DEF Core, Places, Promised
<1>13. Unclaimed'
  BY <1>2, <1>3, <1>5 DEF Core, Unclaimed
<1>14. Empty'
  BY <1>2, <1>3, <1>5 DEF Core, Empty, Members
<1>15. OneClaimant'
  BY <1>2, <1>3, <1>7 DEF Core, OneClaimant
<1>16. OneSetupPerBatch'
  BY <1>2, <1>3, <1>5, <1>7, <1>9, <1>10 DEF Core, OneSetupPerBatch, Claimed, Queued
<1>17. Promised'
  BY <1>2, <1>3, <1>5, <1>7, <1>9, <1>10 DEF Core, Promised, OneSetupPerBatch, Claimed, Queued
<1>18. LinkedAtWork'
  BY <1>2, <1>3, <1>5 DEF Core, LinkedAtWork, Live, Working
<1>19. Recorded'
  BY <1>2, <1>3, <1>5, <1>7, <1>9, <1>10 DEF Core, Recorded, Outcome, Promised, Places, Over,
     Working
<1>20. CleanedOnce'
  BY <1>2, <1>3, <1>5, <1>7, <1>9, <1>10 DEF Core, CleanedOnce, Cleaning
<1>21. CancelLeavesNothing'
  BY <1>2, <1>3, <1>5 DEF Core, CancelLeavesNothing, Pending
<1>22. FirstCleanup'
  BY <1>2, <1>3, <1>5 DEF Core, FirstCleanup, NoCleanupYet, Members, Promised, FailureStates
<1>23. Kept
  BY <1>2, <1>3, <1>5, <1>7, <1>9, <1>10 DEF Kept, Members, Core, Promised
<1> QED
  BY <1>11, <1>12, <1>13, <1>14, <1>15, <1>16, <1>17, <1>18, <1>19, <1>20, <1>21, <1>22, <1>23
     DEF Core

\* The main thread creates the job of the app it claimed, the only one of its batch.
LEMMA MainEnqueueCore ==
  ASSUME Core, MainEnqueue
  PROVE  Core' /\ Kept
<1>1. CoreTypes
  BY DEF Core
<1>2. UNCHANGED <<cleanup, thread, target, resetting, resetApp, budget>>
  BY DEF MainEnqueue, threads, api
<1>3. mainBatch \in Batches /\ mainApp \in Apps /\ main = "enqueue"
  BY <1>1 DEF Core, MainEnqueue, Places
<1>4. /\ install' \in [Batches -> [Apps -> JobStates]]
      /\ item' \in [Batches -> [Apps -> ItemStates]]
      /\ link' \in [Batches -> [Apps -> {"none", "install", "cleanup"}]]
      /\ batch' \in [Batches -> BatchStates]
  BY <1>1, <1>3, EnqueueIs DEF MainEnqueue
<1>5. \/ UNCHANGED <<install, item, link, batch>>
      \/ /\ \A c \in Batches, y \in Apps :
              /\ install'[c][y] = IF c = mainBatch /\ y = mainApp THEN "queued" ELSE install[c][y]
              /\ item'[c][y] = IF c = mainBatch /\ y = mainApp THEN "queued" ELSE item[c][y]
              /\ link'[c][y] = IF c = mainBatch /\ y = mainApp THEN "install" ELSE link[c][y]
         /\ \A c \in Batches : batch'[c] = IF c = mainBatch THEN "running" ELSE batch[c]
  BY <1>1, <1>3, EnqueueIs DEF MainEnqueue
<1>6. main' = "loop" /\ seen' = "none"
  BY <1>1 DEF MainEnqueue, Loop, At
<1>7. /\ \A c \in Batches : Owed(c)' \subseteq Owed(c) /\ Owed(c) \subseteq Apps
      /\ \A c \in Batches : c = mainBatch => mainApp \in Owed(c) /\ mainApp \notin Owed(c)'
  BY <1>2, <1>3, <1>5, <1>6 DEF Core, OneClaimant, Owed
<1>8. CoreTypes'
  BY <1>1, <1>2, <1>3, <1>4, <1>5, <1>6, <1>7 DEF CoreTypes, BatchStates
<1>9. Places'
  BY <1>2, <1>3, <1>5, <1>6 DEF Core, Places
<1>10. Unclaimed'
  BY <1>2, <1>3, <1>5 DEF Core, Unclaimed
<1>11. Empty'
  BY <1>2, <1>3, <1>5 DEF Core, Empty, Members
<1>12. OneClaimant'
  BY <1>2, <1>3, <1>6 DEF Core, OneClaimant
<1>13. OneSetupPerBatch'
  BY <1>2, <1>3, <1>5, <1>6, <1>7 DEF Core, OneSetupPerBatch, Claimed, Queued
<1>14. Promised'
  BY <1>2, <1>3, <1>5, <1>6, <1>7 DEF Core, Promised, OneSetupPerBatch, Claimed, Queued
<1>15. LinkedAtWork'
  BY <1>2, <1>3, <1>5 DEF Core, LinkedAtWork, Live, Working
<1>16. Recorded'
  BY <1>2, <1>3, <1>5, <1>6 DEF Core, Recorded, Outcome, Promised, Places, Over, Working
<1>17. CleanedOnce'
  BY <1>2, <1>3, <1>5, <1>6, <1>7 DEF Core, CleanedOnce, Cleaning
<1>18. CancelLeavesNothing'
  BY <1>2, <1>3, <1>5 DEF Core, CancelLeavesNothing, Pending
<1>19. FirstCleanup'
  BY <1>2, <1>3, <1>5, <1>6 DEF Core, FirstCleanup, NoCleanupYet, Members, Promised, FailureStates
<1>20. Kept
  BY <1>2, <1>3, <1>5, <1>6, <1>7 DEF Kept, Members, Core, Promised
<1> QED
  BY <1>8, <1>9, <1>10, <1>11, <1>12, <1>13, <1>14, <1>15, <1>16, <1>17, <1>18, <1>19, <1>20
     DEF Core

\* The main thread creates the clean-up of the next app of a reset, which nobody
\* still owes an installation.
LEMMA MainCleanupCore ==
  ASSUME Core, MainCleanup
  PROVE  Core' /\ Kept
<1>1. CoreTypes
  BY DEF Core
<1>2. UNCHANGED <<install, thread, target, resetting, resetApp, budget>>
  BY DEF MainCleanup, threads, api
<1>3. mainBatch \in Batches /\ mainApp \in Apps /\ main = "cleanup"
  BY <1>1 DEF Core, MainCleanup, Places
<1>4. /\ cleanup' \in [Batches -> [Apps -> JobStates]]
      /\ item' \in [Batches -> [Apps -> ItemStates]]
      /\ link' \in [Batches -> [Apps -> {"none", "install", "cleanup"}]]
      /\ batch' \in [Batches -> BatchStates]
  BY <1>1, <1>3, EnqueueCleanupIs DEF MainCleanup
<1>5. \/ UNCHANGED <<cleanup, item, link, batch>>
      \/ /\ cleanup[mainBatch][mainApp] = "absent"
         /\ \A c \in Batches, y \in Apps :
              /\ cleanup'[c][y] = IF c = mainBatch /\ y = mainApp THEN "queued" ELSE cleanup[c][y]
              /\ item'[c][y] = IF c = mainBatch /\ y = mainApp THEN "resetting" ELSE item[c][y]
              /\ link'[c][y] = IF c = mainBatch /\ y = mainApp THEN "cleanup" ELSE link[c][y]
         /\ \A c \in Batches : batch'[c] = IF c = mainBatch THEN "resetting" ELSE batch[c]
  BY <1>1, <1>3, EnqueueCleanupIs DEF MainCleanup
<1>6. main' = "loop" /\ seen' = "none"
  BY <1>1 DEF MainCleanup, Loop, At
<1>7. \A c \in Batches : Owed(c)' \subseteq Owed(c) /\ Owed(c) \subseteq Apps
  BY <1>2, <1>3, <1>5, <1>6 DEF Owed
<1>8. CoreTypes'
  BY <1>1, <1>2, <1>3, <1>4, <1>5, <1>6 DEF CoreTypes, BatchStates
<1>9. Places'
  BY <1>2, <1>3, <1>5, <1>6 DEF Core, Places
<1>10. Unclaimed'
  BY <1>2, <1>3, <1>5 DEF Core, Unclaimed
<1>11. Empty'
  BY <1>2, <1>3, <1>5 DEF Core, Empty, Members
<1>12. OneClaimant'
  BY <1>2, <1>3, <1>6 DEF Core, OneClaimant
<1>13. OneSetupPerBatch'
  BY <1>2, <1>3, <1>5, <1>6, <1>7 DEF Core, OneSetupPerBatch, Claimed, Queued
<1>14. Promised'
  BY <1>2, <1>3, <1>5, <1>6, <1>7 DEF Core, Promised, CleanedOnce, Cleaning
<1>15. LinkedAtWork'
  BY <1>2, <1>3, <1>5 DEF Core, LinkedAtWork, Live, Working
<1>16. Recorded'
  BY <1>2, <1>3, <1>5, <1>6 DEF Core, Recorded, Outcome, CleanedOnce, Cleaning, Places, Over,
     Working
<1>17. CleanedOnce'
  BY <1>2, <1>3, <1>5, <1>6, <1>7 DEF Core, CleanedOnce, Cleaning
<1>18. CancelLeavesNothing'
  BY <1>2, <1>3, <1>5 DEF Core, CancelLeavesNothing, Pending
<1>19. FirstCleanup'
  BY <1>2, <1>3, <1>5, <1>6 DEF Core, FirstCleanup, NoCleanupYet, Members, FailureStates
<1>20. Kept
  BY <1>2, <1>3, <1>5 DEF Kept, Members, Core, CleanedOnce, Cleaning
<1> QED
  BY <1>8, <1>9, <1>10, <1>11, <1>12, <1>13, <1>14, <1>15, <1>16, <1>17, <1>18, <1>19, <1>20
     DEF Core

\* The worker runs an installation: its item names it already.
LEMMA RunInstallCore ==
  ASSUME NEW b \in Batches, NEW a \in Apps, Core, RunInstall(b, a)
  PROVE  Core' /\ Kept
<1>1. CoreTypes
  BY DEF Core
<1>2. UNCHANGED <<batch, item, link, cleanup, seen, thread, target, resetting, resetApp, budget>>
  BY DEF RunInstall, batches, items, threads, api
<1>3. install[b][a] \in Live /\ main = "loop" /\ main' = "install" /\ mainBatch' = b /\ mainApp' = a
  BY <1>1 DEF RunInstall, At
<1>4. install' \in [Batches -> [Apps -> JobStates]]
  BY <1>1, SetAt DEF RunInstall, CoreTypes, JobStates, Live
<1>5. \A c \in Batches, y \in Apps :
        install'[c][y] = IF c = b /\ y = a THEN "running" ELSE install[c][y]
  BY <1>1, SetAt DEF RunInstall, CoreTypes, JobStates, Live
<1>6. \A c \in Batches : Owed(c)' \subseteq Owed(c) /\ Owed(c) \subseteq Apps
  BY <1>2, <1>3, <1>5 DEF Owed
<1>7. CoreTypes'
  BY <1>1, <1>2, <1>3, <1>4 DEF CoreTypes
<1>8. Places'
  BY <1>2, <1>3, <1>5 DEF Core, Places
<1>9. Unclaimed'
  BY <1>2, <1>3, <1>5, <1>6 DEF Core, Unclaimed, Live
<1>10. OneClaimant'
  BY <1>2, <1>3 DEF Core, OneClaimant
<1>11. OneSetupPerBatch'
  BY <1>2, <1>3, <1>6 DEF Core, OneSetupPerBatch, Claimed, Queued
<1>12. Promised'
  BY <1>2, <1>3, <1>5, <1>6 DEF Core, Promised, Live
<1>13. LinkedAtWork'
  BY <1>2, <1>3, <1>5, <1>6 DEF Core, LinkedAtWork, Live, Working
<1>14. Recorded'
  BY <1>2, <1>3, <1>5 DEF Core, Recorded, Outcome, Places, Over, Working
<1>15. CleanedOnce'
  BY <1>2, <1>3, <1>6 DEF Core, CleanedOnce, Cleaning
<1>16. FirstCleanup'
  BY <1>2, <1>3 DEF Core, FirstCleanup, NoCleanupYet, Members, Live, FailureStates
<1>17. Empty' /\ CancelLeavesNothing'
  BY <1>2 DEF Core, Empty, Members, CancelLeavesNothing, Pending
<1>18. Kept
  BY <1>2 DEF Kept, Members
<1> QED BY <1>7, <1>8, <1>9, <1>10, <1>11, <1>12, <1>13, <1>14, <1>15, <1>16, <1>17, <1>18 DEF
    Core

\* The worker runs a clean-up: no item changes.
LEMMA RunCleanupCore ==
  ASSUME NEW b \in Batches, NEW a \in Apps, Core, RunCleanup(b, a)
  PROVE  Core' /\ Kept
<1>1. CoreTypes
  BY DEF Core
<1>2. UNCHANGED <<batch, item, link, install, seen, thread, target, resetting, resetApp, budget>>
  BY DEF RunCleanup, batches, items, threads, api
<1>3. /\ cleanup[b][a] \in Live /\ main = "loop" /\ main' = "uninstall" /\ mainBatch' = b
      /\ mainApp' = a
  BY <1>1 DEF RunCleanup, At
<1>4. cleanup' \in [Batches -> [Apps -> JobStates]]
  BY <1>1, SetAt DEF RunCleanup, CoreTypes, JobStates, Live
<1>5. \A c \in Batches, y \in Apps :
        cleanup'[c][y] = IF c = b /\ y = a THEN "running" ELSE cleanup[c][y]
  BY <1>1, SetAt DEF RunCleanup, CoreTypes, JobStates, Live
<1>6. \A c \in Batches : Owed(c)' \subseteq Owed(c) /\ Owed(c) \subseteq Apps
  BY <1>2, <1>3, <1>5 DEF Owed
<1>7. CoreTypes'
  BY <1>1, <1>2, <1>3, <1>4 DEF CoreTypes
<1>8. Places'
  BY <1>2, <1>3, <1>5 DEF Core, Places
<1>9. Unclaimed'
  BY <1>2, <1>3, <1>5, <1>6 DEF Core, Unclaimed, Live
<1>10. OneClaimant'
  BY <1>2, <1>3 DEF Core, OneClaimant
<1>11. OneSetupPerBatch'
  BY <1>2, <1>3, <1>6 DEF Core, OneSetupPerBatch, Claimed, Queued
<1>12. Promised'
  BY <1>2, <1>3, <1>5, <1>6 DEF Core, Promised, Live
<1>13. LinkedAtWork'
  BY <1>2, <1>3, <1>5, <1>6 DEF Core, LinkedAtWork, Live, Working
<1>14. Recorded'
  BY <1>2, <1>3, <1>5 DEF Core, Recorded, Outcome, Places, Over, Working
<1>15. CleanedOnce'
  BY <1>2, <1>3, <1>5, <1>6 DEF Core, CleanedOnce, Cleaning, Live
<1>16. FirstCleanup'
  BY <1>2, <1>3, <1>5 DEF Core, FirstCleanup, NoCleanupYet, Members, Live, FailureStates
<1>17. Empty' /\ CancelLeavesNothing'
  BY <1>2 DEF Core, Empty, Members, CancelLeavesNothing, Pending
<1>18. Kept
  BY <1>2 DEF Kept, Members
<1> QED BY <1>7, <1>8, <1>9, <1>10, <1>11, <1>12, <1>13, <1>14, <1>15, <1>16, <1>17, <1>18 DEF
    Core

\* The worker runs a job that no batch created.
LEMMA RunForeignCore ==
  ASSUME NEW a \in Apps, Core, RunForeign(a)
  PROVE  Core' /\ Kept
<1>1. CoreTypes
  BY DEF Core
<1>2. UNCHANGED <<batch, item, link, install, cleanup, seen, thread, target, resetting, resetApp,
                  budget>>
  BY DEF RunForeign, batches, items, threads, api
<1>3. main = "loop" /\ main' = "foreign" /\ mainApp' = a
  BY <1>1 DEF RunForeign, At
<1>4. \A c \in Batches : Owed(c)' \subseteq Owed(c) /\ Owed(c) \subseteq Apps
  BY <1>2, <1>3 DEF Owed
<1>5. CoreTypes'
  BY <1>1, <1>2, <1>3 DEF CoreTypes
<1>6. Places'
  BY <1>2, <1>3 DEF Core, Places
<1>7. OneClaimant'
  BY <1>2, <1>3 DEF Core, OneClaimant
<1>8. OneSetupPerBatch'
  BY <1>2, <1>3, <1>4 DEF Core, OneSetupPerBatch, Claimed, Queued
<1>9. Promised'
  BY <1>2, <1>3, <1>4 DEF Core, Promised
<1>10. Recorded'
  BY <1>2, <1>3 DEF Core, Recorded, Outcome, Places, Over, Working
<1>11. CleanedOnce'
  BY <1>2, <1>3, <1>4 DEF Core, CleanedOnce, Cleaning
<1>12. FirstCleanup'
  BY <1>2, <1>3 DEF Core, FirstCleanup, NoCleanupYet, Members, FailureStates
<1>13. Unclaimed' /\ Empty' /\ LinkedAtWork' /\ CancelLeavesNothing'
  BY <1>2 DEF Core, Unclaimed, Empty, Members, LinkedAtWork, CancelLeavesNothing, Pending
<1>14. Kept
  BY <1>2 DEF Kept, Members
<1> QED BY <1>5, <1>6, <1>7, <1>8, <1>9, <1>10, <1>11, <1>12, <1>13, <1>14 DEF Core

\* An installation ends: an item that names it is still one to record.
LEMMA EndInstallCore ==
  ASSUME NEW outcome \in Over, Core, EndInstall(outcome)
  PROVE  Core' /\ Kept
<1>1. CoreTypes
  BY DEF Core
<1>2. UNCHANGED <<batch, item, link, cleanup, thread, target, resetting, resetApp, budget>>
  BY DEF EndInstall, batches, items, threads, api
<1>3. /\ mainBatch \in Batches /\ mainApp \in Apps /\ main = "install"
      /\ install[mainBatch][mainApp] = "running"
  BY <1>1 DEF Core, EndInstall, Places
<1>4. install' \in [Batches -> [Apps -> JobStates]]
  BY <1>1, <1>3, SetAt DEF EndInstall, CoreTypes, JobStates, Over
<1>5. \A c \in Batches, y \in Apps :
        install'[c][y] = IF c = mainBatch /\ y = mainApp THEN outcome ELSE install[c][y]
  BY <1>1, <1>3, SetAt DEF EndInstall, CoreTypes, JobStates, Over
<1>6. \/ main' = "loop" /\ seen' = "none"
      \/ /\ link[mainBatch][mainApp] = "install" /\ main' = "advance"
         /\ mainBatch' = mainBatch /\ mainApp' = mainApp /\ seen' = seen
  BY <1>1 DEF EndInstall, At, Loop
<1>7. \A c \in Batches : Owed(c)' \subseteq Owed(c) /\ Owed(c) \subseteq Apps
  BY <1>2, <1>3, <1>5, <1>6 DEF Owed
<1>8. CoreTypes'
  BY <1>1, <1>2, <1>3, <1>4, <1>6 DEF CoreTypes, BatchStates
<1>9. Places'
  BY <1>2, <1>3, <1>5, <1>6 DEF Core, Places
<1>10. Unclaimed'
  BY <1>2, <1>3, <1>5 DEF Core, Unclaimed, Over
<1>11. OneClaimant'
  BY <1>2, <1>3, <1>6 DEF Core, OneClaimant
<1>12. OneSetupPerBatch'
  BY <1>2, <1>3, <1>6, <1>7 DEF Core, OneSetupPerBatch, Claimed, Queued
<1>13. Promised'
  BY <1>2, <1>3, <1>5, <1>6, <1>7 DEF Core, Promised
<1>14. LinkedAtWork'
  BY <1>2, <1>3, <1>5 DEF Core, LinkedAtWork, Live, Working
<1>15. Recorded'
  BY <1>2, <1>3, <1>5, <1>6 DEF Core, Recorded, Outcome, LinkedAtWork, Places, Live, Over, Working
<1>16. CleanedOnce'
  BY <1>2, <1>3, <1>6, <1>7 DEF Core, CleanedOnce, Cleaning
<1>17. FirstCleanup'
  BY <1>2, <1>3, <1>6 DEF Core, FirstCleanup, NoCleanupYet, Members, FailureStates
<1>18. Empty' /\ CancelLeavesNothing'
  BY <1>2 DEF Core, Empty, Members, CancelLeavesNothing, Pending
<1>19. Kept
  BY <1>2 DEF Kept, Members
<1> QED BY <1>8, <1>9, <1>10, <1>11, <1>12, <1>13, <1>14, <1>15, <1>16, <1>17, <1>18, <1>19 DEF
    Core

\* A clean-up ends: an item that names it is still one to record.
LEMMA EndCleanupCore ==
  ASSUME NEW outcome \in Over, Core, EndCleanup(outcome)
  PROVE  Core' /\ Kept
<1>1. CoreTypes
  BY DEF Core
<1>2. UNCHANGED <<batch, item, link, install, thread, target, resetting, resetApp, budget>>
  BY DEF EndCleanup, batches, items, threads, api
<1>3. /\ mainBatch \in Batches /\ mainApp \in Apps /\ main = "uninstall"
      /\ cleanup[mainBatch][mainApp] = "running"
  BY <1>1 DEF Core, EndCleanup, Places
<1>4. cleanup' \in [Batches -> [Apps -> JobStates]]
  BY <1>1, <1>3, SetAt DEF EndCleanup, CoreTypes, JobStates, Over
<1>5. \A c \in Batches, y \in Apps :
        cleanup'[c][y] = IF c = mainBatch /\ y = mainApp THEN outcome ELSE cleanup[c][y]
  BY <1>1, <1>3, SetAt DEF EndCleanup, CoreTypes, JobStates, Over
<1>6. \/ main' = "loop" /\ seen' = "none"
      \/ /\ link[mainBatch][mainApp] = "cleanup" /\ main' = "advance"
         /\ mainBatch' = mainBatch /\ mainApp' = mainApp /\ seen' = seen
  BY <1>1 DEF EndCleanup, At, Loop
<1>7. \A c \in Batches : Owed(c)' \subseteq Owed(c) /\ Owed(c) \subseteq Apps
  BY <1>2, <1>3, <1>5, <1>6 DEF Owed
<1>8. CoreTypes'
  BY <1>1, <1>2, <1>3, <1>4, <1>6 DEF CoreTypes, BatchStates
<1>9. Places'
  BY <1>2, <1>3, <1>5, <1>6 DEF Core, Places
<1>10. Unclaimed'
  BY <1>2, <1>3, <1>5 DEF Core, Unclaimed, Over
<1>11. OneClaimant'
  BY <1>2, <1>3, <1>6 DEF Core, OneClaimant
<1>12. OneSetupPerBatch'
  BY <1>2, <1>3, <1>6, <1>7 DEF Core, OneSetupPerBatch, Claimed, Queued
<1>13. Promised'
  BY <1>2, <1>3, <1>5, <1>6, <1>7 DEF Core, Promised
<1>14. LinkedAtWork'
  BY <1>2, <1>3, <1>5 DEF Core, LinkedAtWork, Live, Working
<1>15. Recorded'
  BY <1>2, <1>3, <1>5, <1>6 DEF Core, Recorded, Outcome, LinkedAtWork, Places, Live, Over, Working
<1>16. CleanedOnce'
  BY <1>2, <1>3, <1>5, <1>6, <1>7 DEF Core, CleanedOnce, Cleaning, Over
<1>17. FirstCleanup'
  BY <1>2, <1>3, <1>5, <1>6 DEF Core, FirstCleanup, NoCleanupYet, Members, FailureStates
<1>18. Empty' /\ CancelLeavesNothing'
  BY <1>2 DEF Core, Empty, Members, CancelLeavesNothing, Pending
<1>19. Kept
  BY <1>2 DEF Kept, Members
<1> QED BY <1>8, <1>9, <1>10, <1>11, <1>12, <1>13, <1>14, <1>15, <1>16, <1>17, <1>18, <1>19 DEF
    Core

\* A job that no batch created ends: nothing is to be recorded.
LEMMA EndForeignCore ==
  ASSUME Core, EndForeign
  PROVE  Core' /\ Kept
<1>1. CoreTypes
  BY DEF Core
<1>2. UNCHANGED <<batch, item, link, install, cleanup, thread, target, resetting, resetApp, budget>>
  BY DEF EndForeign, batches, items, threads, api
<1>3. main = "foreign" /\ main' = "loop" /\ seen' = "none"
  BY <1>1 DEF EndForeign, Loop, At
<1>4. \A c \in Batches : Owed(c)' \subseteq Owed(c) /\ Owed(c) \subseteq Apps
  BY <1>2, <1>3 DEF Owed
<1>5. CoreTypes'
  BY <1>1, <1>2, <1>3 DEF CoreTypes, BatchStates
<1>6. Places'
  BY <1>2, <1>3 DEF Core, Places
<1>7. OneClaimant'
  BY <1>2, <1>3 DEF Core, OneClaimant
<1>8. OneSetupPerBatch'
  BY <1>2, <1>3, <1>4 DEF Core, OneSetupPerBatch, Claimed, Queued
<1>9. Promised'
  BY <1>2, <1>3, <1>4 DEF Core, Promised
<1>10. Recorded'
  BY <1>2, <1>3 DEF Core, Recorded, Outcome, Places, Over, Working
<1>11. CleanedOnce'
  BY <1>2, <1>3, <1>4 DEF Core, CleanedOnce, Cleaning
<1>12. FirstCleanup'
  BY <1>2, <1>3 DEF Core, FirstCleanup, NoCleanupYet, Members, FailureStates
<1>13. Unclaimed' /\ Empty' /\ LinkedAtWork' /\ CancelLeavesNothing'
  BY <1>2 DEF Core, Unclaimed, Empty, Members, LinkedAtWork, CancelLeavesNothing, Pending
<1>14. Kept
  BY <1>2 DEF Kept, Members
<1> QED BY <1>5, <1>6, <1>7, <1>8, <1>9, <1>10, <1>11, <1>12, <1>13, <1>14 DEF Core

\* Reconciling turns to an item whose job is over and not recorded.
LEMMA ReconcileItemCore ==
  ASSUME NEW b \in Batches, NEW a \in Apps, Core, ReconcileItem(b, a)
  PROVE  Core' /\ Kept
<1>1. CoreTypes
  BY DEF Core
<1>2. UNCHANGED <<batch, item, link, install, cleanup, seen, thread, target, resetting, resetApp,
                  budget>>
  BY DEF ReconcileItem, batches, items, jobs, threads, api
<1>3. /\ main = "loop" /\ main' = "advance" /\ mainBatch' = b /\ mainApp' = a
      /\ item[b][a] \in {"queued", "resetting"} /\ link[b][a] # "none" /\ Outcome(b, a) \in Over
  BY <1>1 DEF ReconcileItem, Unrecorded, At
<1>4. \A c \in Batches : Owed(c)' \subseteq Owed(c) /\ Owed(c) \subseteq Apps
  BY <1>2, <1>3 DEF Owed
<1>5. CoreTypes'
  BY <1>1, <1>2, <1>3 DEF CoreTypes
<1>6. Places'
  BY <1>2, <1>3 DEF Core, Places
<1>7. OneClaimant'
  BY <1>2, <1>3 DEF Core, OneClaimant
<1>8. OneSetupPerBatch'
  BY <1>2, <1>3, <1>4 DEF Core, OneSetupPerBatch, Claimed, Queued
<1>9. Promised'
  BY <1>2, <1>3, <1>4 DEF Core, Promised
<1>10. Recorded'
  BY <1>2, <1>3 DEF Core, Recorded, Outcome, Places, Over, Working
<1>11. CleanedOnce'
  BY <1>2, <1>3, <1>4 DEF Core, CleanedOnce, Cleaning
<1>12. FirstCleanup'
  BY <1>2, <1>3 DEF Core, FirstCleanup, NoCleanupYet, Members, FailureStates
<1>13. Unclaimed' /\ Empty' /\ LinkedAtWork' /\ CancelLeavesNothing'
  BY <1>2 DEF Core, Unclaimed, Empty, Members, LinkedAtWork, CancelLeavesNothing, Pending
<1>14. Kept
  BY <1>2 DEF Kept, Members
<1> QED BY <1>5, <1>6, <1>7, <1>8, <1>9, <1>10, <1>11, <1>12, <1>13, <1>14 DEF Core

\* advance_for_job reads the outcome and the state of the batch.
LEMMA AdvanceReadCore ==
  ASSUME Core, AdvanceRead
  PROVE  Core' /\ Kept
<1>1. CoreTypes
  BY DEF Core
<1>2. UNCHANGED <<batch, item, link, install, cleanup, thread, target, resetting, resetApp, budget>>
  BY DEF AdvanceRead, batches, items, jobs, threads, api
<1>3. main = "advance" /\ mainBatch \in Batches /\ mainApp \in Apps
  BY <1>1 DEF Core, AdvanceRead, Places
<1>4. \/ main' = "loop" /\ seen' = "none"
      \/ /\ main' = "write" /\ mainBatch' = mainBatch /\ mainApp' = mainApp
         /\ seen' = batch[mainBatch]
  BY <1>1 DEF AdvanceRead, At, Loop
<1>5. \A c \in Batches : Owed(c)' \subseteq Owed(c) /\ Owed(c) \subseteq Apps
  BY <1>2, <1>3, <1>4 DEF Owed
<1>6. CoreTypes'
  BY <1>1, <1>2, <1>3, <1>4 DEF CoreTypes, BatchStates
<1>7. Places'
  BY <1>2, <1>3, <1>4 DEF Core, Places
<1>8. OneClaimant'
  BY <1>2, <1>3, <1>4 DEF Core, OneClaimant
<1>9. OneSetupPerBatch'
  BY <1>2, <1>3, <1>4, <1>5 DEF Core, OneSetupPerBatch, Claimed, Queued
<1>10. Promised'
  BY <1>2, <1>3, <1>4, <1>5 DEF Core, Promised
<1>11. Recorded'
  BY <1>2, <1>3, <1>4 DEF Core, Recorded, Outcome, Places, Over, Working
<1>12. CleanedOnce'
  BY <1>2, <1>3, <1>4, <1>5 DEF Core, CleanedOnce, Cleaning
<1>13. FirstCleanup'
  BY <1>2, <1>3, <1>4 DEF Core, FirstCleanup, NoCleanupYet, Members, FailureStates
<1>14. Unclaimed' /\ Empty' /\ LinkedAtWork' /\ CancelLeavesNothing'
  BY <1>2 DEF Core, Unclaimed, Empty, Members, LinkedAtWork, CancelLeavesNothing, Pending
<1>15. Kept
  BY <1>2 DEF Kept, Members
<1> QED BY <1>6, <1>7, <1>8, <1>9, <1>10, <1>11, <1>12, <1>13, <1>14, <1>15 DEF Core

\* An outcome recorded in a cancelled batch leaves it cancelled.
LEMMA WriteCancelledCore ==
  ASSUME Core,
         main = "write", AdvanceCancelled, UNCHANGED <<link, install, cleanup, thread, target,
                                                       resetting, resetApp, budget>>
  PROVE  Core' /\ Kept
<1>1. CoreTypes
  BY DEF Core
<1>2. /\ main = "write" /\ mainBatch \in Batches /\ mainApp \in Apps
      /\ Outcome(mainBatch, mainApp) \in Over
  BY <1>1 DEF Core, Places, Recorded
<1>3. item' \in [Batches -> [Apps -> ItemStates]]
  BY <1>1, <1>2, SetAt DEF AdvanceCancelled, CoreTypes, ItemStates, Over
<1>4. \A c \in Batches, y \in Apps :
        item'[c][y] =
          IF c = mainBatch /\ y = mainApp THEN Outcome(mainBatch, mainApp) ELSE item[c][y]
  BY <1>1, <1>2, SetAt DEF AdvanceCancelled, CoreTypes, ItemStates, Over
<1>5. batch' = batch /\ main' = "loop" /\ seen' = "none"
  BY <1>1 DEF AdvanceCancelled, Loop, At
<1>6. \A c \in Batches : Owed(c)' \subseteq Owed(c) /\ Owed(c) \subseteq Apps
  BY <1>2, <1>4, <1>5 DEF Owed
<1>7. CoreTypes'
  BY <1>1, <1>2, <1>3, <1>5 DEF CoreTypes, BatchStates
<1>8. Places'
  BY <1>2, <1>5 DEF Core, Places
<1>9. Unclaimed'
  BY <1>2, <1>4 DEF Core, Unclaimed, Over
<1>10. Empty'
  BY <1>2, <1>4, <1>5 DEF Core, Empty, Members, Recorded, Outcome, Over, Working
<1>11. OneClaimant'
  BY <1>2, <1>5 DEF Core, OneClaimant
<1>12. OneSetupPerBatch'
  BY <1>2, <1>4, <1>5, <1>6 DEF Core, OneSetupPerBatch, Claimed, Queued, Over
<1>13. Promised'
  BY <1>2, <1>4, <1>5, <1>6 DEF Core, Promised, Recorded, Over, Working
<1>14. LinkedAtWork'
  BY <1>2, <1>4 DEF Core, LinkedAtWork, Outcome, Over, Live, Working
<1>15. Recorded'
  BY <1>2, <1>4, <1>5 DEF Core, Recorded, Outcome, Places, Over, Working
<1>16. CleanedOnce'
  BY <1>2, <1>4, <1>5, <1>6 DEF Core, CleanedOnce, Cleaning, Over
<1>17. CancelLeavesNothing'
  BY <1>2, <1>4, <1>5 DEF Core, CancelLeavesNothing, Pending, Over
<1>18. FirstCleanup'
  BY <1>2, <1>4, <1>5 DEF Core, FirstCleanup, NoCleanupYet, Members, Recorded, Outcome, Over,
     Working, FailureStates
<1>19. Kept
  BY <1>2, <1>4 DEF Kept, Members, Core, Recorded, Working, Over
<1> QED
  BY <1>7, <1>8, <1>9, <1>10, <1>11, <1>12, <1>13, <1>14, <1>15, <1>16, <1>17, <1>18, <1>19
     DEF Core

\* An outcome recorded in a batch that is being reset ends it, or turns to the next
\* app to clean up, which nobody still owes an installation.
LEMMA WriteResettingCore ==
  ASSUME Core,
         main = "write", AdvanceResetting, UNCHANGED <<link, install, cleanup, thread, target,
                                                       resetting, resetApp, budget>>
  PROVE  Core' /\ Kept
<1>1. CoreTypes
  BY DEF Core
<1>2. /\ main = "write" /\ mainBatch \in Batches /\ mainApp \in Apps
      /\ Outcome(mainBatch, mainApp) \in Over
  BY <1>1 DEF Core, Places, Recorded
<1>3. /\ item' \in [Batches -> [Apps -> ItemStates]]
      /\ seen = "resetting"
      /\ \E end \in {"reset", "reset_failed"} :
           \A c \in Batches, y \in Apps :
             item'[c][y] = IF c = mainBatch /\ y = mainApp THEN end ELSE item[c][y]
  <2>1. seen = "resetting" BY DEF AdvanceResetting
  <2>2. CASE item' = [item EXCEPT ![mainBatch][mainApp] = "reset_failed"]
    BY <1>1, <1>2, <2>1, <2>2, SetAt DEF CoreTypes, ItemStates
  <2>3. CASE item' = [item EXCEPT ![mainBatch][mainApp] = "reset"]
    BY <1>1, <1>2, <2>1, <2>3, SetAt DEF CoreTypes, ItemStates
  <2> QED BY <2>2, <2>3 DEF AdvanceResetting
<1>4. item' \in [Batches -> [Apps -> ItemStates]]
  BY <1>3
<1>5. /\ seen = "resetting"
      /\ \E end \in {"reset", "reset_failed"} :
           \A c \in Batches, y \in Apps :
             item'[c][y] = IF c = mainBatch /\ y = mainApp THEN end ELSE item[c][y]
  BY <1>3
<1>6. batch' \in [Batches -> BatchStates]
  BY <1>1, <1>2 DEF AdvanceResetting, CoreTypes, BatchStates
<1>7. \A c \in Batches : batch'[c] \in {batch[c], "reset", "reset_failed"}
  BY <1>1, <1>2 DEF AdvanceResetting, CoreTypes, BatchStates
<1>8. \/ main' = "loop" /\ seen' = "none"
      \/ /\ main' = "cleanup" /\ mainBatch' = mainBatch /\ mainApp' \in Apps /\ seen' = seen
         /\ mainApp' # mainApp /\ item[mainBatch][mainApp'] = "reset_pending"
  BY <1>1, <1>2 DEF AdvanceResetting, At, Loop, FirstOrdinal, ResetPending
<1>9. \A c \in Batches : Owed(c)' \subseteq Owed(c) /\ Owed(c) \subseteq Apps
  BY <1>2, <1>5, <1>7, <1>8 DEF Owed
<1>10. CoreTypes'
  BY <1>1, <1>2, <1>4, <1>5, <1>6, <1>8 DEF CoreTypes, BatchStates
<1>11. Places'
  BY <1>2, <1>8 DEF Core, Places
<1>12. Unclaimed'
  BY <1>2, <1>5 DEF Core, Unclaimed, Over
<1>13. Empty'
  BY <1>2, <1>5, <1>7 DEF Core, Empty, Members, Recorded, Outcome, Over, Working
<1>14. OneClaimant'
  BY <1>2, <1>8 DEF Core, OneClaimant
<1>15. OneSetupPerBatch'
  BY <1>2, <1>5, <1>8, <1>9 DEF Core, OneSetupPerBatch, Claimed, Queued, Over
<1>16. Promised'
  BY <1>2, <1>5, <1>7, <1>8, <1>9 DEF Core, Promised, Recorded, Over, Working
<1>17. LinkedAtWork'
  BY <1>2, <1>5 DEF Core, LinkedAtWork, Outcome, Over, Live, Working
<1>18. Recorded'
  BY <1>2, <1>5, <1>8 DEF Core, Recorded, Outcome, Places, Over, Working
<1>19. CleanedOnce'
  BY <1>2, <1>5, <1>8, <1>9 DEF Core, CleanedOnce, Cleaning, Over
<1>20. CancelLeavesNothing'
  BY <1>2, <1>5, <1>7 DEF Core, CancelLeavesNothing, Pending, Over
<1>21. FirstCleanup'
  BY <1>2, <1>5, <1>7, <1>8 DEF Core, FirstCleanup, NoCleanupYet, Members, Recorded, Outcome,
     Over, Working, FailureStates
<1>22. Kept
  BY <1>2, <1>5 DEF Kept, Members, Core, Recorded, Working, Over
<1> QED
  BY <1>10, <1>11, <1>12, <1>13, <1>14, <1>15, <1>16, <1>17, <1>18, <1>19, <1>20, <1>21, <1>22
     DEF Core

\* An outcome recorded in another batch blocks pending apps only, which nobody has
\* claimed.
LEMMA WriteInstallCore ==
  ASSUME Core,
         main = "write", AdvanceInstall, UNCHANGED <<link, install, cleanup, thread, target,
                                                     resetting, resetApp, budget>>
  PROVE  Core' /\ Kept
<1>1. CoreTypes
  BY DEF Core
<1>2. /\ main = "write" /\ mainBatch \in Batches /\ mainApp \in Apps
      /\ Outcome(mainBatch, mainApp) \in Over
  BY <1>1 DEF Core, Places, Recorded
<1>3. /\ batch' = batch /\ main' = "continue" /\ mainBatch' = mainBatch /\ seen' = "none"
      /\ seen # "resetting"
  BY <1>1 DEF AdvanceInstall, At
<1>4. item' \in [Batches -> [Apps -> ItemStates]]
  BY <1>1, <1>2 DEF AdvanceInstall, CoreTypes, ItemStates, Over, Blocked, Pending
<1>5. \A c \in Batches, y \in Apps :
        \/ item'[c][y] = item[c][y] /\ ~(c = mainBatch /\ y = mainApp)
        \/ c = mainBatch /\ y = mainApp /\ item'[c][y] = Outcome(mainBatch, mainApp)
        \/ item[c][y] = "pending" /\ item'[c][y] = "blocked_by_dependency"
  BY <1>1, <1>2 DEF AdvanceInstall, CoreTypes, ItemStates, Over, Blocked, Pending
<1>6. \A c \in Batches : Owed(c)' \subseteq Owed(c) /\ Owed(c) \subseteq Apps
  BY <1>2, <1>3, <1>5 DEF Owed
<1>7. CoreTypes'
  BY <1>1, <1>2, <1>3, <1>4 DEF CoreTypes, BatchStates
<1>8. Places'
  BY <1>2, <1>3 DEF Core, Places
<1>9. Unclaimed'
  BY <1>2, <1>5 DEF Core, Unclaimed, Over
<1>10. Empty'
  BY <1>2, <1>3, <1>5 DEF Core, Empty, Members, Recorded, Outcome, Over, Working
<1>11. OneClaimant'
  BY <1>2, <1>3 DEF Core, OneClaimant
<1>12. OneSetupPerBatch'
  BY <1>2, <1>3, <1>5, <1>6 DEF Core, OneSetupPerBatch, Claimed, Queued, Over
<1>13. Promised'
  BY <1>2, <1>3, <1>5, <1>6 DEF Core, Promised, Recorded, Over, Working
<1>14. LinkedAtWork'
  BY <1>2, <1>5 DEF Core, LinkedAtWork, Outcome, Over, Live, Working
<1>15. Recorded'
  BY <1>2, <1>3, <1>5 DEF Core, Recorded, Outcome, Places, Over, Working
<1>16. CleanedOnce'
  BY <1>2, <1>3, <1>5, <1>6 DEF Core, CleanedOnce, Cleaning, Over
<1>17. CancelLeavesNothing'
  BY <1>2, <1>3, <1>5 DEF Core, CancelLeavesNothing, Pending, Over
<1>18. FirstCleanup'
  BY <1>2, <1>3, <1>5 DEF Core, FirstCleanup, NoCleanupYet, Members, Recorded, Outcome, Over,
     Working, FailureStates
<1>19. Kept
  BY <1>2, <1>5 DEF Kept, Members, Core, Recorded, Working, Over
<1> QED
  BY <1>7, <1>8, <1>9, <1>10, <1>11, <1>12, <1>13, <1>14, <1>15, <1>16, <1>17, <1>18, <1>19
     DEF Core

\* Cancelling the job of an item leaves the item to the worker.
LEMMA CancelJobCore ==
  ASSUME NEW b \in Batches, NEW a \in Apps, Core, CancelJob(b, a)
  PROVE  Core' /\ Kept
<1>1. CoreTypes
  BY DEF Core
<1>2. UNCHANGED <<batch, item, link, cleanup, main, mainBatch, mainApp, seen, thread, target,
                  resetting, resetApp>>
  BY DEF CancelJob, batches, items, worker, threads, api
<1>3. budget' \in [Bounds -> Nat] /\ budget'.resets = budget.resets
  BY <1>1, SpendIs DEF Core, CancelJob, Bounds
<1>4. install[b][a] = "queued"
  BY <1>1 DEF CancelJob
<1>5. install' \in [Batches -> [Apps -> JobStates]]
  BY <1>1, SetAt DEF CancelJob, CoreTypes, JobStates, Over
<1>6. \A c \in Batches, y \in Apps :
        install'[c][y] = IF c = b /\ y = a THEN "cancelled" ELSE install[c][y]
  BY <1>1, SetAt DEF CancelJob, CoreTypes, JobStates, Over
<1>7. \A c \in Batches : Owed(c)' \subseteq Owed(c) /\ Owed(c) \subseteq Apps
  BY <1>2, <1>3, <1>4, <1>6 DEF Owed
<1>8. CoreTypes'
  BY <1>1, <1>2, <1>3, <1>4, <1>5 DEF CoreTypes
<1>9. Places'
  BY <1>2, <1>4, <1>6 DEF Core, Places
<1>10. Unclaimed'
  BY <1>2, <1>4, <1>6 DEF Core, Unclaimed
<1>11. Promised'
  BY <1>2, <1>4, <1>6, <1>7 DEF Core, Promised
<1>12. LinkedAtWork'
  BY <1>2, <1>4, <1>6 DEF Core, LinkedAtWork, Live, Working
<1>13. Recorded'
  BY <1>2, <1>4, <1>6 DEF Core, Recorded, Outcome, Places, Over, Working
<1>14. FirstCleanup'
  BY <1>2, <1>3, <1>4 DEF Core, FirstCleanup, NoCleanupYet, Members, FailureStates
<1>15. Empty' /\ OneClaimant' /\ OneSetupPerBatch' /\ CleanedOnce' /\ CancelLeavesNothing'
  BY <1>2 DEF Core, Empty, Members, OneClaimant, OneSetupPerBatch, Claimed, Queued, Owed,
     CleanedOnce, Cleaning, CancelLeavesNothing, Pending
<1>16. Kept
  BY <1>2 DEF Kept, Members
<1> QED BY <1>8, <1>9, <1>10, <1>11, <1>12, <1>13, <1>14, <1>15, <1>16 DEF Core

\* The first transaction of cancel cancels a queued job and no item.
LEMMA CancelStartCore ==
  ASSUME NEW b \in Batches, Core, CancelStart(b)
  PROVE  Core' /\ Kept
<1>1. CoreTypes
  BY DEF Core
<1>2. UNCHANGED <<batch, item, link, cleanup, main, mainBatch, mainApp, seen, thread, target,
                  resetting, resetApp>>
  BY DEF CancelStart, batches, items, worker, threads
<1>3. budget' \in [Bounds -> Nat] /\ budget'.resets = budget.resets
  BY <1>1, SpendIs DEF Core, CancelStart, Bounds
<1>4. install' \in [Batches -> [Apps -> JobStates]]
  BY <1>1 DEF CancelStart, CoreTypes, JobStates, Over
<1>5. \A c \in Batches, y \in Apps :
        \/ install'[c][y] = install[c][y]
        \/ install[c][y] = "queued" /\ install'[c][y] = "cancelled"
  BY <1>1 DEF CancelStart, CoreTypes, JobStates, Over
<1>6. \A c \in Batches : Owed(c)' \subseteq Owed(c) /\ Owed(c) \subseteq Apps
  BY <1>2, <1>3, <1>5 DEF Owed
<1>7. CoreTypes'
  BY <1>1, <1>2, <1>3, <1>4 DEF CoreTypes
<1>8. Places'
  BY <1>2, <1>5 DEF Core, Places
<1>9. Unclaimed'
  BY <1>2, <1>5 DEF Core, Unclaimed
<1>10. Promised'
  BY <1>2, <1>5, <1>6 DEF Core, Promised
<1>11. LinkedAtWork'
  BY <1>2, <1>5 DEF Core, LinkedAtWork, Live, Working
<1>12. Recorded'
  BY <1>2, <1>5 DEF Core, Recorded, Outcome, Places, Over, Working
<1>13. FirstCleanup'
  BY <1>2, <1>3 DEF Core, FirstCleanup, NoCleanupYet, Members, FailureStates
<1>14. Empty' /\ OneClaimant' /\ OneSetupPerBatch' /\ CleanedOnce' /\ CancelLeavesNothing'
  BY <1>2 DEF Core, Empty, Members, OneClaimant, OneSetupPerBatch, Claimed, Queued, Owed,
     CleanedOnce, Cleaning, CancelLeavesNothing, Pending
<1>15. Kept
  BY <1>2 DEF Kept, Members
<1> QED BY <1>7, <1>8, <1>9, <1>10, <1>11, <1>12, <1>13, <1>14, <1>15 DEF Core

\* The last transaction of cancel leaves nothing pending.
LEMMA CancelFinishCore ==
  ASSUME NEW b \in Batches, Core, CancelFinish(b)
  PROVE  Core' /\ Kept
<1>1. CoreTypes
  BY DEF Core
<1>2. UNCHANGED <<link, install, cleanup, main, mainBatch, mainApp, seen, thread, target,
                  resetting, resetApp, budget>>
  BY DEF CancelFinish, jobs, worker, threads
<1>3. item' \in [Batches -> [Apps -> ItemStates]]
  BY <1>1 DEF CancelFinish, DropPending, CoreTypes, ItemStates
<1>4. \A c \in Batches, y \in Apps :
        item'[c][y] = IF c = b /\ item[c][y] = "pending" THEN "cancelled" ELSE item[c][y]
  BY <1>1 DEF CancelFinish, DropPending, CoreTypes, ItemStates
<1>5. batch' \in [Batches -> BatchStates]
  BY <1>1 DEF CancelFinish, CoreTypes, BatchStates
<1>6. \A c \in Batches :
        \/ batch'[c] = batch[c]
        \/ c = b /\ batch[c] \in {"running", "completed_with_failures"} /\ batch'[c] = "cancelled"
  BY <1>1 DEF CancelFinish, CoreTypes, BatchStates
<1>7. \A c \in Batches : Owed(c)' \subseteq Owed(c) /\ Owed(c) \subseteq Apps
  BY <1>2, <1>4, <1>6 DEF Owed
<1>8. CoreTypes'
  BY <1>1, <1>2, <1>3, <1>5 DEF CoreTypes
<1>9. Unclaimed'
  BY <1>2, <1>4 DEF Core, Unclaimed
<1>10. Empty'
  BY <1>2, <1>4, <1>6 DEF Core, Empty, Members
<1>11. OneSetupPerBatch'
  BY <1>2, <1>4, <1>7 DEF Core, OneSetupPerBatch, Claimed, Queued
<1>12. Promised'
  BY <1>2, <1>4, <1>6, <1>7 DEF Core, Promised
<1>13. LinkedAtWork'
  BY <1>2, <1>4 DEF Core, LinkedAtWork, Live, Working
<1>14. Recorded'
  BY <1>2, <1>4 DEF Core, Recorded, Outcome, Places, Over, Working
<1>15. CleanedOnce'
  BY <1>2, <1>4, <1>7 DEF Core, CleanedOnce, Cleaning
<1>16. CancelLeavesNothing'
  BY <1>2, <1>4, <1>6 DEF Core, CancelLeavesNothing, Pending
<1>17. FirstCleanup'
  BY <1>2, <1>4, <1>6 DEF Core, FirstCleanup, NoCleanupYet, Members, FailureStates
<1>18. Places' /\ OneClaimant'
  BY <1>2 DEF Core, Places, OneClaimant
<1>19. Kept
  BY <1>2, <1>4 DEF Kept, Members
<1> QED BY <1>8, <1>9, <1>10, <1>11, <1>12, <1>13, <1>14, <1>15, <1>16, <1>17, <1>18, <1>19 DEF
    Core

\* A clean-up that begins has spent its bound: there was none before only while the
\* bound was whole.
LEMMA ResetStartCore ==
  ASSUME NEW b \in Batches, Core, ResetStart(b)
  PROVE  Core' /\ Kept
<1>1. CoreTypes
  BY DEF Core
<1>2. UNCHANGED <<batch, item, link, install, cleanup, main, mainBatch, mainApp, seen, thread,
                  target, resetApp>>
  BY DEF ResetStart, batches, items, jobs, worker, threads
<1>3. budget' \in [Bounds -> Nat] /\ budget'.resets < budget.resets
  BY <1>1, SpendIs DEF Core, ResetStart, Bounds
<1>4. resetting' \in [Batches -> {"none", "write", "enqueue", "finish"}]
  BY <1>1 DEF ResetStart, CoreTypes
<1>5. \A c \in Batches : resetting'[c] = IF c = b THEN "write" ELSE resetting[c]
  BY <1>1 DEF ResetStart, CoreTypes
<1>6. \A c \in Batches : Owed(c)' \subseteq Owed(c) /\ Owed(c) \subseteq Apps
  BY <1>2, <1>3, <1>5 DEF Owed
<1>7. CoreTypes'
  BY <1>1, <1>2, <1>3, <1>4 DEF CoreTypes
<1>8. Places'
  BY <1>2, <1>5 DEF Core, Places
<1>9. CleanedOnce'
  BY <1>2, <1>5, <1>6 DEF Core, CleanedOnce, Cleaning
<1>10. FirstCleanup'
  BY <1>2, <1>3, <1>5, BoundAssumption DEF Core, FirstCleanup, NoCleanupYet, Members, Bounds,
     FailureStates
<1>11. /\ Unclaimed' /\ Empty' /\ OneClaimant' /\ OneSetupPerBatch' /\ Promised' /\ LinkedAtWork'
       /\ Recorded' /\ CancelLeavesNothing'
  BY <1>2 DEF Core, Unclaimed, Empty, Members, OneClaimant, OneSetupPerBatch, Claimed, Queued,
     Owed, Promised, LinkedAtWork, Recorded, Outcome, CancelLeavesNothing, Pending
<1>12. Kept
  BY <1>2 DEF Kept, Members
<1> QED BY <1>7, <1>8, <1>9, <1>10, <1>11, <1>12 DEF Core

\* begin_reset marks the items to clean up: an app whose job is still owed is queued
\* and so not one of them.
LEMMA ResetWriteCore ==
  ASSUME NEW b \in Batches, Core, ResetWrite(b)
  PROVE  Core' /\ Kept
<1>1. CoreTypes
  BY DEF Core
<1>2. UNCHANGED <<install, cleanup, main, mainBatch, mainApp, seen, thread, target, budget>>
  BY DEF ResetWrite, jobs, worker, threads
<1>3. resetting[b] = "write"
  BY <1>1 DEF ResetWrite
<1>4. item' \in [Batches -> [Apps -> ItemStates]]
  BY <1>1 DEF ResetWrite, Members, CoreTypes, ItemStates
<1>5. \A c \in Batches, y \in Apps :
        IF c = b /\ item[c][y] \in {"failed", "cancelled", "reset_failed"}
        THEN item'[c][y] = "reset_pending"
        ELSE IF c = b /\ item[c][y] \notin {"none", "succeeded"} THEN item'[c][y] = "reset"
        ELSE item'[c][y] = item[c][y]
  BY <1>1 DEF ResetWrite, Members, CoreTypes, ItemStates
<1>6. link' \in [Batches -> [Apps -> {"none", "install", "cleanup"}]]
  BY <1>1 DEF ResetWrite, Members, CoreTypes
<1>7. \A c \in Batches, y \in Apps :
        IF c = b /\ item[c][y] \in {"failed", "cancelled", "reset_failed"}
        THEN link'[c][y] = "none" ELSE link'[c][y] = link[c][y]
  BY <1>1 DEF ResetWrite, Members, CoreTypes
<1>8. batch' \in [Batches -> BatchStates]
  BY <1>1 DEF ResetWrite, CoreTypes, BatchStates
<1>9. \A c \in Batches : batch'[c] = IF c = b THEN "resetting" ELSE batch[c]
  BY <1>1 DEF ResetWrite, CoreTypes, BatchStates
<1>10. /\ resetting' \in [Batches -> {"none", "write", "enqueue", "finish"}]
       /\ resetApp' \in [Batches -> Apps \union {NoApp}]
       /\ \A c \in Batches : c # b => resetting'[c] = resetting[c] /\ resetApp'[c] = resetApp[c]
       /\ resetting'[b] = "enqueue" =>
            /\ resetApp'[b] \in Apps
            /\ item[b][resetApp'[b]] \in {"failed", "cancelled", "reset_failed"}
  <2>1. CASE resetting' = [resetting EXCEPT ![b] = "finish"] /\ resetApp' = resetApp
    BY <1>1, <2>1 DEF CoreTypes
  <2>2. ASSUME NEW a \in Apps, item[b][a] \in {"failed", "cancelled", "reset_failed"},
               resetting' = [resetting EXCEPT ![b] = "enqueue"],
               resetApp' = [resetApp EXCEPT ![b] = a]
        PROVE  /\ resetting' \in [Batches -> {"none", "write", "enqueue", "finish"}]
               /\ resetApp' \in [Batches -> Apps \union {NoApp}]
               /\ \A c \in Batches : c # b =>
                    resetting'[c] = resetting[c] /\ resetApp'[c] = resetApp[c]
               /\ resetApp'[b] \in Apps
               /\ item[b][resetApp'[b]] \in {"failed", "cancelled", "reset_failed"}
    BY <1>1, <2>2 DEF CoreTypes
  <2>3. \/ resetting' = [resetting EXCEPT ![b] = "finish"] /\ resetApp' = resetApp
        \/ \E a \in Apps :
             /\ item[b][a] \in {"failed", "cancelled", "reset_failed"}
             /\ resetting' = [resetting EXCEPT ![b] = "enqueue"]
             /\ resetApp' = [resetApp EXCEPT ![b] = a]
    BY DEF ResetWrite, Members, FirstOrdinal
  <2> QED BY <2>1, <2>2, <2>3
<1>11. /\ resetting' \in [Batches -> {"none", "write", "enqueue", "finish"}]
       /\ resetApp' \in [Batches -> Apps \union {NoApp}]
  BY <1>10
<1>12. /\ \A c \in Batches : c # b => resetting'[c] = resetting[c] /\ resetApp'[c] = resetApp[c]
       /\ resetting'[b] = "enqueue" =>
            /\ resetApp'[b] \in Apps
            /\ item[b][resetApp'[b]] \in {"failed", "cancelled", "reset_failed"}
  BY <1>10
<1>13. \A c \in Batches : Owed(c)' \subseteq Owed(c) /\ Owed(c) \subseteq Apps
  BY <1>2, <1>3, <1>5, <1>7, <1>9, <1>12 DEF Owed
<1>14. CoreTypes'
  BY <1>1, <1>2, <1>3, <1>4, <1>6, <1>8, <1>11, <1>12 DEF CoreTypes
<1>15. Places'
  BY <1>2, <1>3, <1>12 DEF Core, Places
<1>16. Unclaimed'
  BY <1>2, <1>3, <1>5, <1>7 DEF Core, Unclaimed
<1>17. Empty'
  BY <1>2, <1>3, <1>5, <1>9 DEF Core, Empty, Members
<1>18. OneSetupPerBatch'
  BY <1>2, <1>3, <1>5, <1>13 DEF Core, OneSetupPerBatch, Claimed, Queued
<1>19. Promised'
  BY <1>2, <1>3, <1>5, <1>7, <1>9, <1>13 DEF Core, Promised
<1>20. LinkedAtWork'
  BY <1>2, <1>3, <1>5, <1>7 DEF Core, LinkedAtWork, Live, Working
<1>21. Recorded'
  BY <1>2, <1>3, <1>5, <1>7 DEF Core, Recorded, Outcome, Places, Over, Working
<1>22. CleanedOnce'
  BY <1>2, <1>3, <1>5, <1>7, <1>12, <1>13 DEF Core, CleanedOnce, Cleaning, Promised
<1>23. CancelLeavesNothing'
  BY <1>2, <1>3, <1>5, <1>9 DEF Core, CancelLeavesNothing, Pending
<1>24. FirstCleanup'
  BY <1>2, <1>3, <1>5, <1>9, <1>12 DEF Core, FirstCleanup, NoCleanupYet, Members, FailureStates
<1>25. OneClaimant'
  BY <1>2 DEF Core, OneClaimant
<1>26. Kept
  BY <1>2, <1>3, <1>5 DEF Kept, Members
<1> QED
  BY <1>14, <1>15, <1>16, <1>17, <1>18, <1>19, <1>20, <1>21, <1>22, <1>23, <1>24, <1>25, <1>26
     DEF Core

\* begin_reset creates the clean-up of its first app, which nobody still owes an
\* installation.
LEMMA ResetEnqueueCore ==
  ASSUME NEW b \in Batches, Core, ResetEnqueue(b)
  PROVE  Core' /\ Kept
<1>1. CoreTypes
  BY DEF Core
<1>2. UNCHANGED <<install, main, mainBatch, mainApp, seen, thread, target, budget>>
  BY DEF ResetEnqueue, worker, threads
<1>3. resetting[b] = "enqueue" /\ resetApp[b] \in Apps
  BY <1>1 DEF Core, ResetEnqueue, Places
<1>4. /\ cleanup' \in [Batches -> [Apps -> JobStates]]
      /\ item' \in [Batches -> [Apps -> ItemStates]]
      /\ link' \in [Batches -> [Apps -> {"none", "install", "cleanup"}]]
      /\ batch' \in [Batches -> BatchStates]
  BY <1>1, <1>3, EnqueueCleanupIs DEF ResetEnqueue
<1>5. \/ UNCHANGED <<cleanup, item, link, batch>>
      \/ /\ cleanup[b][resetApp[b]] = "absent"
         /\ \A c \in Batches, y \in Apps :
              /\ cleanup'[c][y] = IF c = b /\ y = resetApp[b] THEN "queued" ELSE cleanup[c][y]
              /\ item'[c][y] = IF c = b /\ y = resetApp[b] THEN "resetting" ELSE item[c][y]
              /\ link'[c][y] = IF c = b /\ y = resetApp[b] THEN "cleanup" ELSE link[c][y]
         /\ \A c \in Batches : batch'[c] = IF c = b THEN "resetting" ELSE batch[c]
  BY <1>1, <1>3, EnqueueCleanupIs DEF ResetEnqueue
<1>6. /\ resetting' \in [Batches -> {"none", "write", "enqueue", "finish"}]
      /\ resetApp' \in [Batches -> Apps \union {NoApp}]
  BY <1>1 DEF ResetEnqueue, ResetDone, CoreTypes
<1>7. /\ \A c \in Batches : resetting'[c] = IF c = b THEN "none" ELSE resetting[c]
      /\ \A c \in Batches : resetApp'[c] = IF c = b THEN NoApp ELSE resetApp[c]
  BY <1>1 DEF ResetEnqueue, ResetDone, CoreTypes
<1>8. \A c \in Batches : Owed(c)' \subseteq Owed(c) /\ Owed(c) \subseteq Apps
  BY <1>2, <1>3, <1>5, <1>7 DEF Owed
<1>9. CoreTypes'
  BY <1>1, <1>2, <1>3, <1>4, <1>5, <1>6, <1>7 DEF CoreTypes
<1>10. Places'
  BY <1>2, <1>3, <1>5, <1>7 DEF Core, Places
<1>11. Unclaimed'
  BY <1>2, <1>3, <1>5 DEF Core, Unclaimed
<1>12. Empty'
  BY <1>2, <1>3, <1>5 DEF Core, Empty, Members
<1>13. OneSetupPerBatch'
  BY <1>2, <1>3, <1>5, <1>8 DEF Core, OneSetupPerBatch, Claimed, Queued
<1>14. Promised'
  BY <1>2, <1>3, <1>5, <1>8 DEF Core, Promised, CleanedOnce, Cleaning
<1>15. LinkedAtWork'
  BY <1>2, <1>3, <1>5 DEF Core, LinkedAtWork, Live, Working
<1>16. Recorded'
  BY <1>2, <1>3, <1>5 DEF Core, Recorded, Outcome, CleanedOnce, Cleaning, Places, Over, Working
<1>17. CleanedOnce'
  BY <1>2, <1>3, <1>5, <1>7, <1>8 DEF Core, CleanedOnce, Cleaning
<1>18. CancelLeavesNothing'
  BY <1>2, <1>3, <1>5 DEF Core, CancelLeavesNothing, Pending
<1>19. FirstCleanup'
  BY <1>2, <1>3, <1>5, <1>7 DEF Core, FirstCleanup, NoCleanupYet, Members, FailureStates
<1>20. OneClaimant'
  BY <1>2 DEF Core, OneClaimant
<1>21. Kept
  BY <1>2, <1>3, <1>5 DEF Kept, Members, Core, CleanedOnce, Cleaning
<1> QED
  BY <1>9, <1>10, <1>11, <1>12, <1>13, <1>14, <1>15, <1>16, <1>17, <1>18, <1>19, <1>20, <1>21
     DEF Core

\* A reset with nothing to clean up ends.
LEMMA ResetFinishCore ==
  ASSUME NEW b \in Batches, Core, ResetFinish(b)
  PROVE  Core' /\ Kept
<1>1. CoreTypes
  BY DEF Core
<1>2. UNCHANGED <<item, link, install, cleanup, main, mainBatch, mainApp, seen, thread, target,
                  budget>>
  BY DEF ResetFinish, items, jobs, worker, threads
<1>3. resetting[b] = "finish"
  BY <1>1 DEF ResetFinish
<1>4. batch' \in [Batches -> BatchStates]
  BY <1>1 DEF ResetFinish, CoreTypes, BatchStates
<1>5. \A c \in Batches : batch'[c] = IF c = b THEN "reset" ELSE batch[c]
  BY <1>1 DEF ResetFinish, CoreTypes, BatchStates
<1>6. /\ resetting' \in [Batches -> {"none", "write", "enqueue", "finish"}]
      /\ resetApp' \in [Batches -> Apps \union {NoApp}]
  BY <1>1 DEF ResetFinish, ResetDone, CoreTypes
<1>7. /\ \A c \in Batches : resetting'[c] = IF c = b THEN "none" ELSE resetting[c]
      /\ \A c \in Batches : resetApp'[c] = IF c = b THEN NoApp ELSE resetApp[c]
  BY <1>1 DEF ResetFinish, ResetDone, CoreTypes
<1>8. \A c \in Batches : Owed(c)' \subseteq Owed(c) /\ Owed(c) \subseteq Apps
  BY <1>2, <1>3, <1>5, <1>7 DEF Owed
<1>9. CoreTypes'
  BY <1>1, <1>2, <1>3, <1>4, <1>6, <1>7 DEF CoreTypes
<1>10. Places'
  BY <1>2, <1>3, <1>7 DEF Core, Places
<1>11. Empty'
  BY <1>2, <1>3, <1>5 DEF Core, Empty, Members
<1>12. Promised'
  BY <1>2, <1>3, <1>5, <1>8 DEF Core, Promised
<1>13. CleanedOnce'
  BY <1>2, <1>3, <1>7, <1>8 DEF Core, CleanedOnce, Cleaning
<1>14. CancelLeavesNothing'
  BY <1>2, <1>3, <1>5 DEF Core, CancelLeavesNothing, Pending
<1>15. FirstCleanup'
  BY <1>2, <1>3, <1>5, <1>7 DEF Core, FirstCleanup, NoCleanupYet, Members, FailureStates
<1>16. Unclaimed' /\ OneClaimant' /\ OneSetupPerBatch' /\ LinkedAtWork' /\ Recorded'
  BY <1>2 DEF Core, Unclaimed, OneClaimant, OneSetupPerBatch, Claimed, Queued, Owed, LinkedAtWork,
     Recorded, Outcome
<1>17. Kept
  BY <1>2 DEF Kept, Members
<1> QED BY <1>9, <1>10, <1>11, <1>12, <1>13, <1>14, <1>15, <1>16, <1>17 DEF Core

\* A restart of the worker forgets the claims its threads had made.
LEMMA WorkerCrashCore ==
  ASSUME Core, WorkerCrash
  PROVE  Core' /\ Kept
<1>1. CoreTypes
  BY DEF Core
<1>2. UNCHANGED <<batch, item, link, install, cleanup, resetting, resetApp>>
  BY DEF WorkerCrash, batches, items, jobs, api
<1>3. budget' \in [Bounds -> Nat] /\ budget'.resets = budget.resets
  BY <1>1, SpendIs DEF Core, WorkerCrash, Bounds
<1>4. main' = "loop" /\ seen' = "none"
  BY <1>1 DEF WorkerCrash, Loop, At
<1>5. thread' \in [Batches -> [Apps -> {"off", "start", "fetch", "continue", "enqueue"}]]
  BY <1>1 DEF WorkerCrash, Each
<1>6. \A c \in Batches, y \in Apps : thread'[c][y] = "off"
  BY <1>1 DEF WorkerCrash, Each
<1>7. target' \in [Batches -> [Apps -> Apps \union {NoApp}]]
  BY <1>1 DEF WorkerCrash, Each
<1>8. \A c \in Batches : Owed(c)' \subseteq Owed(c) /\ Owed(c) \subseteq Apps
  BY <1>2, <1>3, <1>4, <1>6, <1>7 DEF Owed
<1>9. CoreTypes'
  BY <1>1, <1>2, <1>3, <1>4, <1>5, <1>7 DEF CoreTypes, BatchStates
<1>10. Places'
  BY <1>2, <1>4, <1>6, <1>7 DEF Core, Places
<1>11. OneClaimant'
  BY <1>2, <1>4, <1>6 DEF Core, OneClaimant
<1>12. OneSetupPerBatch'
  BY <1>2, <1>4, <1>6, <1>7, <1>8 DEF Core, OneSetupPerBatch, Claimed, Queued
<1>13. Promised'
  BY <1>2, <1>4, <1>6, <1>7, <1>8 DEF Core, Promised
<1>14. Recorded'
  BY <1>2, <1>4 DEF Core, Recorded, Outcome, Places, Over, Working
<1>15. CleanedOnce'
  BY <1>2, <1>4, <1>6, <1>7, <1>8 DEF Core, CleanedOnce, Cleaning
<1>16. FirstCleanup'
  BY <1>2, <1>3, <1>4 DEF Core, FirstCleanup, NoCleanupYet, Members, FailureStates
<1>17. Unclaimed' /\ Empty' /\ LinkedAtWork' /\ CancelLeavesNothing'
  BY <1>2 DEF Core, Unclaimed, Empty, Members, LinkedAtWork, CancelLeavesNothing, Pending
<1>18. Kept
  BY <1>2 DEF Kept, Members
<1> QED BY <1>9, <1>10, <1>11, <1>12, <1>13, <1>14, <1>15, <1>16, <1>17, <1>18 DEF Core

\* A restart of the API process forgets the calls under way.
LEMMA ApiCrashCore ==
  ASSUME Core, ApiCrash
  PROVE  Core' /\ Kept
<1>1. CoreTypes
  BY DEF Core
<1>2. UNCHANGED <<batch, item, link, install, cleanup, main, mainBatch, mainApp, seen, thread,
                  target>>
  BY DEF ApiCrash, batches, items, jobs, worker, threads
<1>3. budget' \in [Bounds -> Nat] /\ budget'.resets = budget.resets
  BY <1>1, SpendIs DEF Core, ApiCrash, Bounds
<1>4. /\ resetting' \in [Batches -> {"none", "write", "enqueue", "finish"}]
      /\ resetApp' \in [Batches -> Apps \union {NoApp}]
  BY <1>1 DEF ApiCrash
<1>5. \A c \in Batches : resetting'[c] = "none"
  BY <1>1 DEF ApiCrash
<1>6. \A c \in Batches : Owed(c)' \subseteq Owed(c) /\ Owed(c) \subseteq Apps
  BY <1>2, <1>3, <1>5 DEF Owed
<1>7. CoreTypes'
  BY <1>1, <1>2, <1>3, <1>4 DEF CoreTypes
<1>8. Places'
  BY <1>2, <1>5 DEF Core, Places
<1>9. CleanedOnce'
  BY <1>2, <1>5, <1>6 DEF Core, CleanedOnce, Cleaning
<1>10. FirstCleanup'
  BY <1>2, <1>3, <1>5 DEF Core, FirstCleanup, NoCleanupYet, Members, FailureStates
<1>11. /\ Unclaimed' /\ Empty' /\ OneClaimant' /\ OneSetupPerBatch' /\ Promised' /\ LinkedAtWork'
       /\ Recorded' /\ CancelLeavesNothing'
  BY <1>2 DEF Core, Unclaimed, Empty, Members, OneClaimant, OneSetupPerBatch, Claimed, Queued,
     Owed, Promised, LinkedAtWork, Recorded, Outcome, CancelLeavesNothing, Pending
<1>12. Kept
  BY <1>2 DEF Kept, Members
<1> QED BY <1>7, <1>8, <1>9, <1>10, <1>11, <1>12 DEF Core

\* A request adds pending items to a new or a running batch.
LEMMA SubmitCore ==
  ASSUME NEW o \in Owners, NEW n \in 1 .. MaxParallel, Core, Submit(o, n)
  PROVE  Core'
<1>1. CoreTypes
  BY DEF Core
<1>2. UNCHANGED <<link, install, cleanup, main, mainBatch, mainApp, seen, thread, target,
                  resetting, resetApp, budget>>
  BY DEF Submit, batches, jobs, worker, threads
<1>3. /\ batch' \in [Batches -> BatchStates] /\ item' \in [Batches -> [Apps -> ItemStates]]
      /\ \A c \in Batches :
           \/ batch'[c] = batch[c] /\ \A y \in Apps : item'[c][y] = item[c][y]
           \/ /\ batch[c] \in {"none", "running"} /\ batch'[c] = "running"
              /\ \A y \in Apps :
                   \/ item'[c][y] = item[c][y]
                   \/ item[c][y] = "none" /\ item'[c][y] = "pending"
  <2>1. CASE UNCHANGED <<batches, item, ordinal, priority>>
    BY <1>1, <2>1 DEF batches, CoreTypes
  <2>2. ASSUME NEW b \in Batches, batch[b] \in {"none", "running"},
               batch' = [batch EXCEPT ![b] = "running"], Add(b, asked[o] \ Members(b), n)
        PROVE  /\ batch' \in [Batches -> BatchStates]
               /\ item' \in [Batches -> [Apps -> ItemStates]]
               /\ \A c \in Batches :
                    \/ batch'[c] = batch[c] /\ \A y \in Apps : item'[c][y] = item[c][y]
                    \/ /\ batch[c] \in {"none", "running"} /\ batch'[c] = "running"
                       /\ \A y \in Apps :
                            \/ item'[c][y] = item[c][y]
                            \/ item[c][y] = "none" /\ item'[c][y] = "pending"
    <3> DEFINE fresh == asked[o] \ Members(b)
    <3>7. item' = [item EXCEPT ![b] = [y \in Apps |-> IF y \in fresh THEN "pending" ELSE @[y]]]
      BY <2>2 DEF Add
    <3>8. \A y \in fresh \intersect Apps : item[b][y] = "none"
      BY DEF Members
    <3> HIDE DEF fresh
    <3>1. batch' \in [Batches -> BatchStates]
      BY <1>1, <2>2 DEF CoreTypes, BatchStates
    <3>2. [y \in Apps |-> IF y \in fresh THEN "pending" ELSE item[b][y]] \in [Apps -> ItemStates]
      BY <1>1 DEF CoreTypes, ItemStates
    <3>3. item' \in [Batches -> [Apps -> ItemStates]]
      BY <1>1, <3>7, <3>2 DEF CoreTypes
    <3>4. \A y \in Apps : item'[b][y] = IF y \in fresh THEN "pending" ELSE item[b][y]
      BY <1>1, <3>7 DEF CoreTypes
    <3>5. \A c \in Batches : c # b => batch'[c] = batch[c] /\ item'[c] = item[c]
      BY <1>1, <2>2, <3>7 DEF CoreTypes
    <3>6. batch'[b] = "running"
      BY <1>1, <2>2 DEF CoreTypes
    <3> QED BY <2>2, <3>1, <3>3, <3>4, <3>5, <3>6, <3>8
  <2>3. \/ UNCHANGED <<batches, item, ordinal, priority>>
        \/ \E b \in Batches :
             /\ batch[b] \in {"none", "running"}
             /\ batch' = [batch EXCEPT ![b] = "running"]
             /\ Add(b, asked[o] \ Members(b), n)
    BY DEF Submit, Active
  <2> QED BY <2>1, <2>2, <2>3
<1>4. batch' \in [Batches -> BatchStates] /\ item' \in [Batches -> [Apps -> ItemStates]]
  BY <1>3
<1>5. \A c \in Batches :
        \/ batch'[c] = batch[c] /\ \A y \in Apps : item'[c][y] = item[c][y]
        \/ /\ batch[c] \in {"none", "running"} /\ batch'[c] = "running"
           /\ \A y \in Apps :
                \/ item'[c][y] = item[c][y]
                \/ item[c][y] = "none" /\ item'[c][y] = "pending"
  BY <1>3
<1>6. \A c \in Batches : Owed(c)' \subseteq Owed(c) /\ Owed(c) \subseteq Apps
  BY <1>2, <1>5 DEF Owed
<1>7. CoreTypes'
  BY <1>1, <1>2, <1>4 DEF CoreTypes
<1>8. Unclaimed'
  BY <1>2, <1>5 DEF Core, Unclaimed
<1>9. Empty'
  BY <1>2, <1>5 DEF Core, Empty, Members
<1>10. OneSetupPerBatch'
  BY <1>2, <1>5, <1>6 DEF Core, OneSetupPerBatch, Claimed, Queued
<1>11. Promised'
  BY <1>2, <1>5, <1>6 DEF Core, Promised, Empty, Members
<1>12. LinkedAtWork'
  BY <1>2, <1>5 DEF Core, LinkedAtWork, Live, Working
<1>13. Recorded'
  BY <1>2, <1>5 DEF Core, Recorded, Outcome, Places, Over, Working
<1>14. CleanedOnce'
  BY <1>2, <1>5, <1>6 DEF Core, CleanedOnce, Cleaning
<1>15. CancelLeavesNothing'
  BY <1>2, <1>5 DEF Core, CancelLeavesNothing, Pending
<1>16. FirstCleanup'
  BY <1>2, <1>5 DEF Core, FirstCleanup, NoCleanupYet, Members, FailureStates
<1>17. Places' /\ OneClaimant'
  BY <1>2 DEF Core, Places, OneClaimant
<1> QED BY <1>7, <1>8, <1>9, <1>10, <1>11, <1>12, <1>13, <1>14, <1>15, <1>16, <1>17 DEF Core

-----------------------------------------------------------------------------
(* The other variables keep their types, the items their numbers *)

\* What a step of the worker's main thread leaves to others.
LEMMA WorkerFrame ==
  ASSUME Worker
  PROVE  UNCHANGED <<owner, parallel, download, ordinal, priority, threads, api>>
<1>1. MainContinue => UNCHANGED <<owner, parallel, download, ordinal, priority, threads, api>>
  BY DEF MainContinue
<1>2. MainEnqueue => UNCHANGED <<owner, parallel, download, ordinal, priority, threads, api>>
  BY DEF MainEnqueue
<1>3. MainCleanup => UNCHANGED <<owner, parallel, download, ordinal, priority, threads, api>>
  BY DEF MainCleanup
<1>4. AdvanceRead \/ EndForeign =>
        UNCHANGED <<owner, parallel, download, ordinal, priority, threads, api>>
  BY DEF AdvanceRead, EndForeign, batches, items
<1>5. AdvanceWrite => UNCHANGED <<owner, parallel, download, ordinal, priority, threads, api>>
  BY DEF AdvanceWrite
<1>6. \A outcome \in Over : EndInstall(outcome) \/ EndCleanup(outcome) =>
        UNCHANGED <<owner, parallel, download, ordinal, priority, threads, api>>
  BY DEF EndInstall, EndCleanup, batches, items
<1>7. \A a \in Apps : RunForeign(a) =>
        UNCHANGED <<owner, parallel, download, ordinal, priority, threads, api>>
  BY DEF RunForeign, batches, items
<1>8. \A b \in Batches, a \in Apps : RunInstall(b, a) \/ RunCleanup(b, a) \/ ReconcileItem(b, a) =>
        UNCHANGED <<owner, parallel, download, ordinal, priority, threads, api>>
  BY DEF RunInstall, RunCleanup, ReconcileItem, batches, items
<1>9. \A b \in Batches : ReconcileBatch(b) =>
        UNCHANGED <<owner, parallel, download, ordinal, priority, threads, api>>
  BY DEF ReconcileBatch
<1> QED BY <1>1, <1>2, <1>3, <1>4, <1>5, <1>6, <1>7, <1>8, <1>9 DEF Worker

\* What a step of the download manager or of a download thread leaves to others.
LEMMA ThreadFrame ==
  ASSUME NEW b \in Batches, NEW a \in Apps, Manager(b, a) \/ Thread(b, a)
  PROVE  UNCHANGED <<owner, parallel, ordinal, priority, foreign, installed, removed, worker, api>>
<1>1. StopDownload(b, a) \/ StartDownload(b, a) =>
        UNCHANGED <<owner, parallel, ordinal, priority, foreign, installed, removed, worker, api>>
  BY DEF StopDownload, StartDownload, batches, items, jobs
<1>2. BeginDownload(b, a) \/ EndDownload(b, a) =>
        UNCHANGED <<owner, parallel, ordinal, priority, foreign, installed, removed, worker, api>>
  BY DEF BeginDownload, EndDownload, batches, jobs
<1>3. AbandonDownload(b, a) =>
        UNCHANGED <<owner, parallel, ordinal, priority, foreign, installed, removed, worker, api>>
  BY DEF AbandonDownload, batches, items, jobs
<1>4. ThreadContinue(b, a) =>
        UNCHANGED <<owner, parallel, ordinal, priority, foreign, installed, removed, worker, api>>
  BY DEF ThreadContinue, jobs
<1>5. ThreadEnqueue(b, a) =>
        UNCHANGED <<owner, parallel, ordinal, priority, foreign, installed, removed, worker, api>>
  BY DEF ThreadEnqueue
<1> QED BY <1>1, <1>2, <1>3, <1>4, <1>5 DEF Manager, Thread

\* What a later transaction of an API call leaves to others.
LEMMA AnswerFrame ==
  ASSUME NEW b \in Batches, Answer(b)
  PROVE  /\ UNCHANGED <<owner, parallel, download, ordinal, priority, foreign, installed,
                        removed, worker,
                        threads, asked>>
         /\ cancelling' \subseteq cancelling
<1>1. CancelFinish(b) =>
        /\ UNCHANGED <<owner, parallel, download, ordinal, priority, foreign, installed,
                       removed, worker,
                       threads, asked>>
        /\ cancelling' \subseteq cancelling
  BY DEF CancelFinish, jobs
<1>2. ResetWrite(b) =>
        UNCHANGED <<owner, parallel, download, ordinal, priority, foreign, installed, removed,
                    worker,
                    threads, asked, cancelling>>
  BY DEF ResetWrite, jobs
<1>3. ResetEnqueue(b) =>
        UNCHANGED <<owner, parallel, download, ordinal, priority, foreign, installed, removed,
                    worker,
                    threads, asked, cancelling>>
  BY DEF ResetEnqueue
<1>4. ResetFinish(b) =>
        UNCHANGED <<owner, parallel, download, ordinal, priority, foreign, installed, removed,
                    worker,
                    threads, asked, cancelling>>
  BY DEF ResetFinish, items, jobs
<1> QED BY <1>1, <1>2, <1>3, <1>4 DEF Answer

\* The main thread works on a batch and an app, or on none.
LEMMA WorkerTypes ==
  ASSUME Core, RestTypes, Worker
  PROVE  /\ mainBatch' \in Batches \union {NoBatch} /\ mainApp' \in Apps \union {NoApp}
         /\ foreign' \in [Apps -> JobStates] /\ installed' \subseteq Apps /\ removed' \subseteq Apps
<1> DEFINE Placed == mainBatch' \in Batches \union {NoBatch} /\ mainApp' \in Apps \union {NoApp}
<1> DEFINE Typed ==
  Placed /\ foreign' \in [Apps -> JobStates] /\ installed' \subseteq Apps /\ removed' \subseteq Apps
<1>0. ASSUME NEW a \in Apps, Put(a) \/ Remove(a) \/ Leave(a)
      PROVE  installed' \subseteq Apps /\ removed' \subseteq Apps
  BY <1>0 DEF Put, Remove, Leave, RestTypes
<1>1. /\ mainBatch \in Batches \union {NoBatch} /\ mainApp \in Apps \union {NoApp}
      /\ foreign \in [Apps -> JobStates] /\ installed \subseteq Apps /\ removed \subseteq Apps
  BY DEF RestTypes
<1>2. \A place : At(place, mainBatch, mainApp) => Placed
  BY <1>1 DEF At
<1>3. Loop => Placed
  BY DEF Loop, At
<1>4. MainContinue => Typed
  BY <1>1, <1>3 DEF MainContinue, At, jobs
<1>5. MainEnqueue \/ MainCleanup => Typed
  BY <1>1, <1>3 DEF MainEnqueue, MainCleanup
<1>6. AdvanceRead => Typed
  BY <1>1, <1>2, <1>3 DEF AdvanceRead, jobs
<1>7. AdvanceWrite => Typed
  <2>1. AdvanceCancelled => Placed BY <1>3 DEF AdvanceCancelled
  <2>2. AdvanceResetting => Placed
    BY <1>1, <1>3 DEF AdvanceResetting, FirstOrdinal, ResetPending, At
  <2>3. AdvanceInstall => Placed BY <1>1 DEF AdvanceInstall, At
  <2>4. AdvanceWrite => UNCHANGED <<foreign, installed, removed>> BY DEF AdvanceWrite, jobs
  <2> QED BY <1>1, <2>1, <2>2, <2>3, <2>4 DEF AdvanceWrite
<1>8. EndForeign => Typed
  <2>1. HAVE EndForeign
  <2>2. Placed /\ (Put(mainApp) \/ Leave(mainApp))
    BY <1>3, <2>1 DEF EndForeign
  <2>3. foreign' = [foreign EXCEPT ![mainApp] = "absent"] BY <2>1 DEF EndForeign
  <2>4. foreign' \in [Apps -> JobStates] BY <1>1, <2>3 DEF JobStates
  <2>5. mainApp \in Apps BY <2>1 DEF EndForeign, Core, Places
  <2> QED BY <1>0, <2>2, <2>4, <2>5
<1>9. ASSUME NEW outcome \in Over, EndInstall(outcome) PROVE Typed
  <2>1. Placed BY <1>2, <1>3, <1>9 DEF EndInstall
  <2>2. mainApp \in Apps BY <1>9 DEF EndInstall, Core, Places
  <2>3. UNCHANGED foreign /\ (Put(mainApp) \/ Leave(mainApp))
    BY <1>9 DEF EndInstall
  <2> QED BY <1>0, <1>1, <2>1, <2>2, <2>3
<1>10. ASSUME NEW outcome \in Over, EndCleanup(outcome) PROVE Typed
  <2>1. Placed BY <1>2, <1>3, <1>10 DEF EndCleanup
  <2>2. mainApp \in Apps BY <1>10 DEF EndCleanup, Core, Places
  <2>3. UNCHANGED foreign /\ (Remove(mainApp) \/ Leave(mainApp))
    BY <1>10 DEF EndCleanup
  <2> QED BY <1>0, <1>1, <2>1, <2>2, <2>3
<1>11. ASSUME NEW a \in Apps, RunForeign(a) PROVE Typed
  <2>1. Placed /\ UNCHANGED <<installed, removed>> /\ foreign' = [foreign EXCEPT ![a] = "running"]
    BY <1>11 DEF RunForeign, At
  <2>2. foreign' \in [Apps -> JobStates] BY <1>1, <2>1 DEF JobStates, Live
  <2> QED BY <1>1, <2>1, <2>2
<1>12. \A b \in Batches, a \in Apps :
         RunInstall(b, a) \/ RunCleanup(b, a) \/ ReconcileItem(b, a) => Typed
  BY <1>1 DEF RunInstall, RunCleanup, ReconcileItem, At, jobs
<1>13. \A b \in Batches : ReconcileBatch(b) => Typed
  BY <1>1 DEF ReconcileBatch, At, jobs
<1> QED
  BY <1>4, <1>5, <1>6, <1>7, <1>8, <1>9, <1>10, <1>11, <1>12, <1>13 DEF Worker

\* A download is in one of its states, and a thread is told to stop or not.
LEMMA ThreadTypes ==
  ASSUME RestTypes, NEW b \in Batches, NEW a \in Apps, Manager(b, a) \/ Thread(b, a)
  PROVE  /\ download' \in [Batches -> [Apps -> {"none", "downloading", "paused", "ready"}]]
         /\ stop' \in [Batches -> [Apps -> BOOLEAN]]
<1>1. ASSUME NEW to \in {"downloading", "ready"}, SetDownload(b, a, to)
      PROVE  download' \in [Batches -> [Apps -> {"none", "downloading", "paused", "ready"}]]
  <2>1. download \in [Batches -> [Apps -> {"none", "downloading", "paused", "ready"}]]
    BY DEF RestTypes
  <2>2. download' = [download EXCEPT ![b][a] = to] \/ download' = download
    BY <1>1 DEF SetDownload
  <2> QED BY <2>1, <2>2, SetAt
<1>2. download' \in [Batches -> [Apps -> {"none", "downloading", "paused", "ready"}]]
  <2>1. \/ SetDownload(b, a, "downloading") \/ SetDownload(b, a, "ready")
        \/ UNCHANGED download
    BY DEF Manager, StopDownload, StartDownload, Thread, BeginDownload, EndDownload,
           AbandonDownload, ThreadContinue, ThreadEnqueue, items
  <2> QED BY <1>1, <2>1 DEF RestTypes
<1>3. stop' \in [Batches -> [Apps -> BOOLEAN]]
  <2>1. \/ stop' = [stop EXCEPT ![b][a] = TRUE] \/ stop' = [stop EXCEPT ![b][a] = FALSE]
        \/ UNCHANGED stop
    BY DEF Manager, StopDownload, StartDownload, Thread, BeginDownload, EndDownload,
           AbandonDownload, ThreadContinue, ThreadEnqueue
  <2>2. stop \in [Batches -> [Apps -> BOOLEAN]]
    BY DEF RestTypes
  <2>3. \A v \in BOOLEAN : [stop EXCEPT ![b][a] = v] \in [Batches -> [Apps -> BOOLEAN]]
    BY <2>2
  <2> QED BY <2>1, <2>2, <2>3
<1> QED BY <1>2, <1>3

\* A plan is a set of apps.
LEMMA PlanIs == ASSUME NEW S PROVE Plan(S) \subseteq Apps
BY DEF Plan, Closure

\* A request keeps the types of what it writes.
LEMMA RequestTypes ==
  ASSUME RestTypes, Request
  PROVE  RestTypes'
<1> DEFINE Others == <<mainBatch, mainApp, stop, installed, removed>>
<1>1. ASSUME NEW o \in Owners, NEW requested, Ask(o, requested) PROVE RestTypes'
  <2>1. UNCHANGED <<owner, parallel, download, foreign, cancelling>> /\ UNCHANGED Others
    BY <1>1 DEF Ask, batches, items, jobs, worker, threads
  <2>2. asked' = [asked EXCEPT ![o] = Plan(requested)]
    BY <1>1 DEF Ask
  <2>3. asked' \in [Owners -> SUBSET Apps]
    BY <2>2, PlanIs DEF RestTypes
  <2> QED BY <2>1, <2>3 DEF RestTypes
<1>2. ASSUME NEW o \in Owners, NEW n \in 1 .. MaxParallel, Submit(o, n) PROVE RestTypes'
  <2>1. UNCHANGED <<download, foreign, cancelling>> /\ UNCHANGED Others
    BY <1>2 DEF Submit, jobs, worker, threads
  <2>2. asked' \in [Owners -> SUBSET Apps]
    <3>1. asked' = [asked EXCEPT ![o] = {}] BY <1>2 DEF Submit
    <3> QED BY <3>1 DEF RestTypes
  <2>3. \/ UNCHANGED <<owner, parallel>>
        \/ \E b \in Batches : /\ owner' = [owner EXCEPT ![b] = o]
                              /\ parallel' = [parallel EXCEPT ![b] = n]
    BY <1>2 DEF Submit, Active, Add, batches
  <2>4. owner' \in [Batches -> Owners \union {NoOwner}]
    BY <2>3 DEF RestTypes
  <2>5. parallel' \in [Batches -> 1 .. MaxParallel]
    BY <2>3 DEF RestTypes
  <2> QED BY <2>1, <2>2, <2>4, <2>5 DEF RestTypes
<1>3. ASSUME NEW a \in Apps, CreateForeign(a) PROVE RestTypes'
  <2>1. UNCHANGED <<owner, parallel, download, asked, cancelling>> /\ UNCHANGED Others
    BY <1>3 DEF CreateForeign, batches, items, worker, threads, api
  <2>2. foreign' = [foreign EXCEPT ![a] = "queued"]
    BY <1>3 DEF CreateForeign
  <2>3. foreign' \in [Apps -> JobStates]
    BY <2>2 DEF RestTypes, JobStates, Live
  <2> QED BY <2>1, <2>3 DEF RestTypes
<1>4. ASSUME NEW b \in Batches, NEW n \in 1 .. MaxParallel, SetParallel(b, n) PROVE RestTypes'
  <2>1. UNCHANGED <<owner, download, foreign, asked, cancelling>> /\ UNCHANGED Others
    BY <1>4 DEF SetParallel, items, jobs, worker, threads, api
  <2>2. parallel' = [parallel EXCEPT ![b] = n]
    BY <1>4 DEF SetParallel
  <2>3. parallel' \in [Batches -> 1 .. MaxParallel]
    BY <2>2 DEF RestTypes
  <2> QED BY <2>1, <2>3 DEF RestTypes
<1>5. ASSUME NEW b \in Batches, NEW listed, Reorder(b, listed) PROVE RestTypes'
  <2>1. /\ UNCHANGED <<owner, parallel, download, foreign, asked, cancelling>>
        /\ UNCHANGED Others
    BY <1>5 DEF Reorder, batches, jobs, worker, threads, api
  <2> QED BY <2>1 DEF RestTypes
<1>6. ASSUME NEW b \in Batches, NEW a \in Apps, PauseDownload(b, a) \/ ResumeDownload(b, a)
      PROVE  RestTypes'
  <2>1. UNCHANGED <<owner, parallel, foreign, asked, cancelling>> /\ UNCHANGED Others
    BY <1>6 DEF PauseDownload, ResumeDownload, batches, jobs, worker, threads, api
  <2>2. \/ download' = [download EXCEPT ![b][a] = "paused"]
        \/ download' = [download EXCEPT ![b][a] = "none"]
    BY <1>6 DEF PauseDownload, ResumeDownload
  <2>3. download' \in [Batches -> [Apps -> {"none", "downloading", "paused", "ready"}]]
    <3>1. download \in [Batches -> [Apps -> {"none", "downloading", "paused", "ready"}]]
      BY DEF RestTypes
    <3> QED BY <2>2, <3>1, SetAt
  <2> QED BY <2>1, <2>3 DEF RestTypes
<1>7. ASSUME NEW b \in Batches, NEW a \in Apps, CancelJob(b, a) PROVE RestTypes'
  <2>1. /\ UNCHANGED <<owner, parallel, download, foreign, asked, cancelling>>
        /\ UNCHANGED Others
    BY <1>7 DEF CancelJob, batches, items, worker, threads, api
  <2> QED BY <2>1 DEF RestTypes
<1>8. ASSUME NEW b \in Batches, CancelStart(b) PROVE RestTypes'
  <2>1. UNCHANGED <<owner, parallel, download, foreign, asked>> /\ UNCHANGED Others
    BY <1>8 DEF CancelStart, batches, items, worker, threads
  <2>2. cancelling' = cancelling \union {b}
    BY <1>8 DEF CancelStart
  <2> QED BY <2>1, <2>2 DEF RestTypes
<1>9. ASSUME NEW b \in Batches, ResetStart(b) PROVE RestTypes'
  <2>1. /\ UNCHANGED <<owner, parallel, download, foreign, asked, cancelling>>
        /\ UNCHANGED Others
    BY <1>9 DEF ResetStart, batches, items, jobs, worker, threads
  <2> QED BY <2>1 DEF RestTypes
<1> QED
  BY <1>1, <1>2, <1>3, <1>4, <1>5, <1>6, <1>7, <1>8, <1>9 DEF Request

\* Every step keeps the types of the other variables.
LEMMA RestStep ==
  ASSUME Core, RestTypes, [Next]_vars
  PROVE  RestTypes'
<1>1. CASE Worker
  <2>1. UNCHANGED <<owner, parallel, download, stop, asked, cancelling>>
    BY <1>1, WorkerFrame DEF threads, api
  <2> QED BY <1>1, <2>1, WorkerTypes DEF RestTypes
<1>2. CASE Request
  BY <1>2, RequestTypes
<1>3. CASE WorkerCrash
  <2>1. UNCHANGED <<owner, parallel, download, foreign, installed, removed, asked, cancelling>>
    BY <1>3 DEF WorkerCrash, batches, items, jobs, api
  <2>2. mainBatch' = NoBatch /\ mainApp' = NoApp
    BY <1>3 DEF WorkerCrash, Loop, At
  <2>3. stop' \in [Batches -> [Apps -> BOOLEAN]]
    BY <1>3 DEF WorkerCrash, Each
  <2> QED BY <2>1, <2>2, <2>3 DEF RestTypes
<1>4. CASE ApiCrash
  <2>1. UNCHANGED <<owner, parallel, download, foreign, installed, removed, mainBatch, mainApp,
                    stop>>
    BY <1>4 DEF ApiCrash, batches, items, jobs, worker, threads
  <2>2. asked' \in [Owners -> SUBSET Apps] /\ cancelling' = {}
    BY <1>4 DEF ApiCrash
  <2> QED BY <2>1, <2>2 DEF RestTypes
<1>5. ASSUME NEW b \in Batches, NEW a \in Apps, Manager(b, a) \/ Thread(b, a) PROVE RestTypes'
  <2>1. UNCHANGED <<owner, parallel, foreign, installed, removed, mainBatch, mainApp, asked,
                    cancelling>>
    BY <1>5, ThreadFrame DEF worker, api
  <2>2. /\ download' \in [Batches -> [Apps -> {"none", "downloading", "paused", "ready"}]]
        /\ stop' \in [Batches -> [Apps -> BOOLEAN]]
    BY <1>5, ThreadTypes
  <2> QED BY <2>1, <2>2 DEF RestTypes
<1>6. ASSUME NEW b \in Batches, Answer(b) PROVE RestTypes'
  <2>1. /\ UNCHANGED <<owner, parallel, download, foreign, installed, removed, mainBatch,
                       mainApp, stop,
                       asked>>
        /\ cancelling' \subseteq cancelling
    BY <1>6, AnswerFrame DEF worker, threads
  <2> QED BY <2>1 DEF RestTypes
<1>7. CASE UNCHANGED vars
  <2>1. UNCHANGED <<owner, parallel, download, foreign, installed, removed, mainBatch, mainApp,
                    stop, asked,
                    cancelling>>
    BY <1>7 DEF vars, batches, items, jobs, worker, threads, api
  <2> QED BY <2>1 DEF RestTypes
<1> QED BY <1>1, <1>2, <1>3, <1>4, <1>5, <1>6, <1>7 DEF Next

\* Only a request for more apps and a reordering number items.
LEMMA NumbersFrame ==
  ASSUME [Next]_vars
  PROVE  \/ \E o \in Owners, n \in 1 .. MaxParallel : Submit(o, n)
         \/ \E b \in Batches, listed \in SUBSET Apps : Reorder(b, listed)
         \/ UNCHANGED <<ordinal, priority>>
<1>1. CASE Worker
  BY <1>1, WorkerFrame
<1>2. CASE WorkerCrash \/ ApiCrash \/ UNCHANGED vars
  BY <1>2 DEF WorkerCrash, ApiCrash, vars, items
<1>3. ASSUME NEW b \in Batches, NEW a \in Apps, Manager(b, a) \/ Thread(b, a)
      PROVE  UNCHANGED <<ordinal, priority>>
  BY <1>3, ThreadFrame
<1>4. ASSUME NEW b \in Batches, Answer(b) PROVE UNCHANGED <<ordinal, priority>>
  BY <1>4, AnswerFrame
<1>5. CASE Request
  <2>1. \A o \in Owners : \A requested : Ask(o, requested) => UNCHANGED <<ordinal, priority>>
    BY DEF Ask, items
  <2>2. \A a \in Apps : CreateForeign(a) => UNCHANGED <<ordinal, priority>>
    BY DEF CreateForeign, items
  <2>3. \A b \in Batches, n \in 1 .. MaxParallel : SetParallel(b, n) => UNCHANGED <<ordinal,
                                                                                    priority>>
    BY DEF SetParallel, items
  <2>4. \A b \in Batches, a \in Apps :
          PauseDownload(b, a) \/ ResumeDownload(b, a) \/ CancelJob(b, a) =>
            UNCHANGED <<ordinal, priority>>
    BY DEF PauseDownload, ResumeDownload, CancelJob, items
  <2>5. \A b \in Batches : CancelStart(b) \/ ResetStart(b) => UNCHANGED <<ordinal, priority>>
    BY DEF CancelStart, ResetStart, items
  <2> QED BY <1>5, <2>1, <2>2, <2>3, <2>4, <2>5 DEF Request
<1> QED BY <1>1, <1>2, <1>3, <1>4, <1>5 DEF Next

-----------------------------------------------------------------------------
(* The steps together *)

\* A step that writes nothing the claims depend on keeps the invariant.
LEMMA AskCore ==
  ASSUME Core, NEW o \in Owners, NEW requested, Ask(o, requested)
  PROVE  Core' /\ Kept
<1>1. UNCHANGED <<batch, item, link, install, cleanup, main, mainBatch, mainApp, seen, thread,
                  target,
                  resetting, resetApp>>
  BY DEF Ask, batches, items, jobs, worker, threads
<1>2. budget' \in [Bounds -> Nat] /\ budget'.resets = budget.resets
  BY SpendIs DEF Ask, Bounds, Core
<1> QED BY <1>1, <1>2, ElsewhereCore

\* Creating another job on an app, likewise.
LEMMA CreateForeignCore ==
  ASSUME Core, NEW a \in Apps, CreateForeign(a)
  PROVE  Core' /\ Kept
<1>1. UNCHANGED <<batch, item, link, install, cleanup, main, mainBatch, mainApp, seen, thread,
                  target,
                  resetting, resetApp>>
  BY DEF CreateForeign, batches, items, worker, threads, api
<1>2. budget' \in [Bounds -> Nat] /\ budget'.resets = budget.resets
  BY SpendIs DEF CreateForeign, Bounds, Core
<1> QED BY <1>1, <1>2, ElsewhereCore

\* Reordering a batch and setting how many downloads it runs, likewise.
LEMMA OrderCore ==
  ASSUME Core, NEW b \in Batches, NEW n, NEW listed, SetParallel(b, n) \/ Reorder(b, listed)
  PROVE  Core' /\ Kept
<1>1. UNCHANGED <<batch, item, link, install, cleanup, main, mainBatch, mainApp, seen, thread,
                  target,
                  resetting, resetApp>>
  BY DEF SetParallel, Reorder, batches, items, jobs, worker, threads, api
<1>2. Spend("reorders")
  BY DEF SetParallel, Reorder
<1>3. budget' \in [Bounds -> Nat] /\ budget'.resets = budget.resets
  BY <1>2, SpendIs DEF Bounds, Core
<1> QED BY <1>1, <1>3, ElsewhereCore

\* Pausing, resuming and stopping a download, and a stuttering step, likewise.
LEMMA PauseCore ==
  ASSUME Core, \/ \E b \in Batches, a \in Apps :
                    PauseDownload(b, a) \/ ResumeDownload(b, a) \/ StopDownload(b, a)
               \/ UNCHANGED vars
  PROVE  Core' /\ Kept
<1>1. UNCHANGED <<batch, item, link, install, cleanup, main, mainBatch, mainApp, seen, thread,
                  target,
                  resetting, resetApp>>
  BY DEF PauseDownload, ResumeDownload, StopDownload, batches, items, jobs, worker, threads, api,
     vars
<1>2. budget \in [Bounds -> Nat]
  BY DEF Core, FirstCleanup
<1>3. Spend("pauses") \/ UNCHANGED budget
  BY DEF PauseDownload, ResumeDownload, StopDownload, vars
<1>4. CASE Spend("pauses")
  <2>1. budget' \in [Bounds -> Nat] /\ budget'.resets = budget.resets
    BY <1>4, SpendIs DEF Bounds, Core
  <2> QED BY <1>1, <2>1, ElsewhereCore
<1>5. CASE UNCHANGED budget
  BY <1>1, <1>2, <1>5, ElsewhereCore
<1> QED BY <1>3, <1>4, <1>5

\* Starting a download, and each of its steps, keeps the invariant.
LEMMA DownloadCore ==
  ASSUME Core, NEW b \in Batches, NEW a \in Apps,
         \/ StartDownload(b, a) \/ BeginDownload(b, a) \/ EndDownload(b, a) \/ AbandonDownload(b, a)
  PROVE  Core' /\ Kept
<1>1. UNCHANGED <<batch, item, link, install, cleanup, main, mainBatch, mainApp, seen, target,
                  resetting, resetApp, budget>>
  BY DEF StartDownload, BeginDownload, EndDownload, AbandonDownload, batches, items, jobs, worker,
     api
<1>2. /\ thread[b][a] # "enqueue"
      /\ \E place \in {"off", "start", "fetch", "continue"} :
           thread' = [thread EXCEPT ![b][a] = place]
  BY DEF StartDownload, BeginDownload, EndDownload, AbandonDownload, Startable, First
<1> QED BY <1>1, <1>2, ThreadMovesCore

\* Recording how a job ended keeps the invariant.
LEMMA AdvanceWriteCore ==
  ASSUME Core, AdvanceWrite
  PROVE  Core' /\ Kept
<1>1. UNCHANGED <<link, install, cleanup, thread, target, resetting, resetApp, budget>>
  BY DEF AdvanceWrite, jobs, threads, api
<1>2. main = "write" /\ (AdvanceCancelled \/ AdvanceResetting \/ AdvanceInstall)
  BY DEF AdvanceWrite
<1> QED BY <1>1, <1>2, WriteCancelledCore, WriteResettingCore, WriteInstallCore

\* A caller of continue_batch keeps the invariant, whichever thread it is.
LEMMA ContinueCore ==
  ASSUME Core, MainContinue \/ (\E b \in Batches : ReconcileBatch(b))
               \/ (\E b \in Batches, a \in Apps : ThreadContinue(b, a))
  PROVE  Core' /\ Kept
<1>1. ASSUME MainContinue PROVE Core' /\ Kept
  <2>1. mainBatch \in Batches BY <1>1 DEF MainContinue, Core, Places
  <2>2. /\ main = "continue"
        /\ UNCHANGED <<link, install, cleanup, thread, target, resetting, resetApp, budget>>
    BY <1>1 DEF MainContinue, jobs, threads, api
  <2>3. ASSUME NEW b, b = mainBatch, NEW x \in Apps, ClaimNext(b, x), At("enqueue", b, x),
               UNCHANGED seen
        PROVE  Core' /\ Kept
    BY <2>1, <2>2, <2>3, MainClaimsCore
  <2>4. CASE (FinishBatch(mainBatch) \/ NothingToClaim(mainBatch)) /\ Loop
    <3>1. main' = "loop" /\ seen' = "none" BY <2>4 DEF Loop, At
    <3> QED BY <2>1, <2>2, <2>4, <3>1, MainStopsCore
  <2> QED BY <1>1, <2>3, <2>4 DEF MainContinue
<1>2. ASSUME NEW b \in Batches, ReconcileBatch(b) PROVE Core' /\ Kept
  <2>1. /\ main = "loop" /\ seen' = seen
        /\ UNCHANGED <<link, install, cleanup, thread, target, resetting, resetApp, budget>>
    BY <1>2 DEF ReconcileBatch, jobs, threads, api
  <2>2. ASSUME NEW x \in Apps, ClaimNext(b, x), At("enqueue", b, x) PROVE Core' /\ Kept
    BY <2>1, <2>2, MainClaimsCore
  <2>3. CASE FinishBatch(b) /\ UNCHANGED <<main, mainBatch, mainApp>>
    BY <2>1, <2>3, MainStopsCore
  <2> QED BY <1>2, <2>2, <2>3 DEF ReconcileBatch
<1>3. ASSUME NEW b \in Batches, NEW a \in Apps, ThreadContinue(b, a) PROVE Core' /\ Kept
  <2>1. /\ thread[b][a] = "continue"
        /\ UNCHANGED <<link, install, cleanup, main, mainBatch, mainApp, seen, resetting, resetApp,
                       budget>>
    BY <1>3 DEF ThreadContinue, jobs, worker, api
  <2>2. ASSUME NEW x \in Apps, ClaimNext(b, x), thread' = [thread EXCEPT ![b][a] = "enqueue"],
               target' = [target EXCEPT ![b][a] = x]
        PROVE  Core' /\ Kept
    BY <2>1, <2>2, ThreadClaimsCore
  <2>3. CASE /\ FinishBatch(b) \/ NothingToClaim(b)
             /\ thread' = [thread EXCEPT ![b][a] = "off"]
             /\ UNCHANGED target
    BY <2>1, <2>3, ThreadStopsCore
  <2> QED BY <1>3, <2>2, <2>3 DEF ThreadContinue
<1> QED BY <1>1, <1>2, <1>3

\* Every step keeps the claims in order; only a request adds items to a batch.
LEMMA CoreStep ==
  ASSUME Core, [Next]_vars
  PROVE  Core' /\ (Kept \/ \E o \in Owners, n \in 1 .. MaxParallel : Submit(o, n))
<1>1. CASE Worker
  <2>1. MainContinue \/ (\E b \in Batches : ReconcileBatch(b)) => Core' /\ Kept
    BY ContinueCore
  <2>2. AdvanceWrite => Core' /\ Kept
    BY AdvanceWriteCore
  <2>3. MainEnqueue \/ MainCleanup \/ AdvanceRead \/ EndForeign => Core' /\ Kept
    BY MainEnqueueCore, MainCleanupCore, AdvanceReadCore, EndForeignCore
  <2>4. \A outcome \in Over : EndInstall(outcome) \/ EndCleanup(outcome) => Core' /\ Kept
    BY EndInstallCore, EndCleanupCore
  <2>5. \A a \in Apps : RunForeign(a) => Core' /\ Kept
    BY RunForeignCore
  <2>6. \A b \in Batches, a \in Apps :
          RunInstall(b, a) \/ RunCleanup(b, a) \/ ReconcileItem(b, a) => Core' /\ Kept
    BY RunInstallCore, RunCleanupCore, ReconcileItemCore
  <2> QED BY <1>1, <2>1, <2>2, <2>3, <2>4, <2>5, <2>6 DEF Worker
<1>2. CASE Request
  <2>1. \A o \in Owners, n \in 1 .. MaxParallel : Submit(o, n) => Core'
    BY SubmitCore
  <2>2. \A b \in Batches, a \in Apps : CancelJob(b, a) => Core' /\ Kept
    BY CancelJobCore
  <2>3. \A b \in Batches : CancelStart(b) \/ ResetStart(b) => Core' /\ Kept
    BY CancelStartCore, ResetStartCore
  <2>4. \A o \in Owners, requested \in Selections : Ask(o, requested) => Core' /\ Kept
    BY AskCore
  <2>5. \A a \in Apps : CreateForeign(a) => Core' /\ Kept
    BY CreateForeignCore
  <2>6. /\ \A b \in Batches, n \in 1 .. MaxParallel : SetParallel(b, n) => Core' /\ Kept
        /\ \A b \in Batches, listed \in SUBSET Apps : Reorder(b, listed) => Core' /\ Kept
    BY OrderCore
  <2>7. \A b \in Batches, a \in Apps : PauseDownload(b, a) \/ ResumeDownload(b, a) => Core' /\ Kept
    BY PauseCore
  <2> QED BY <1>2, <2>1, <2>2, <2>3, <2>4, <2>5, <2>6, <2>7 DEF Request
<1>3. CASE WorkerCrash \/ ApiCrash \/ UNCHANGED vars
  BY <1>3, WorkerCrashCore, ApiCrashCore, PauseCore
<1>4. ASSUME NEW b \in Batches, NEW a \in Apps, Manager(b, a) \/ Thread(b, a)
      PROVE  Core' /\ Kept
  <2>1. StopDownload(b, a) => Core' /\ Kept
    BY PauseCore
  <2>2. StartDownload(b, a) \/ BeginDownload(b, a) \/ EndDownload(b, a) \/ AbandonDownload(b, a) =>
          Core' /\ Kept
    BY DownloadCore
  <2>3. ThreadContinue(b, a) \/ ThreadEnqueue(b, a) => Core' /\ Kept
    BY ContinueCore, ThreadEnqueueCore
  <2> QED BY <1>4, <2>1, <2>2, <2>3 DEF Manager, Thread
<1>5. ASSUME NEW b \in Batches, Answer(b) PROVE Core' /\ Kept
  BY <1>5, CancelFinishCore, ResetWriteCore, ResetEnqueueCore, ResetFinishCore DEF Answer
<1> QED BY <1>1, <1>2, <1>3, <1>4, <1>5 DEF Next

\* Every step keeps the numbers of a batch within its size.
LEMMA NumbersStep ==
  ASSUME IInv, [Next]_vars
  PROVE  Numbers'
<1>1. CoreTypes /\ Numbering(ordinal) /\ Numbering(priority)
  BY DEF IInv, Core, Numbers
<1>2. ASSUME Kept PROVE \A number : Numbering(number) =>
        /\ number \in [Batches -> [Apps -> 0 .. Cardinality(Apps) - 1]]
        /\ \A b \in Batches : \A a \in Members(b)' : number[b][a] < Cardinality(Members(b)')
  BY <1>2 DEF Kept, Numbering
<1>3. CASE UNCHANGED <<ordinal, priority>> /\ Kept
  BY <1>1, <1>2, <1>3 DEF Numbers, Numbering
<1>4. ASSUME NEW o \in Owners, NEW n \in 1 .. MaxParallel, Submit(o, n) PROVE Numbers'
  <2>1. asked \in [Owners -> SUBSET Apps]
    BY DEF IInv, RestTypes
  <2>2. CASE UNCHANGED <<batches, item, ordinal, priority>>
    <3>1. Kept BY <2>2 DEF Kept, Members
    <3> QED BY <1>3, <2>2, <3>1
  <2>3. \/ \E b \in Batches : Add(b, asked[o] \ Members(b), n)
        \/ UNCHANGED <<batches, item, ordinal, priority>>
    BY <1>4 DEF Submit, Active
  <2> QED BY <1>1, <2>1, <2>2, <2>3, AppendedIs DEF Numbers
<1>5. ASSUME NEW b \in Batches, NEW listed \in SUBSET Apps, Reorder(b, listed) PROVE Numbers'
  <2>1. Kept BY <1>5 DEF Reorder, Kept, Members
  <2>2. UNCHANGED ordinal BY <1>5 DEF Reorder
  <2>3. Numbering(ordinal)' BY <1>1, <1>2, <2>1, <2>2 DEF Numbering
  <2> QED BY <1>1, <1>5, <2>3, ReorderedIs DEF Numbers
<1> QED BY <1>3, <1>4, <1>5, NumbersFrame, CoreStep DEF IInv

-----------------------------------------------------------------------------
(* What holds for all apps, batches and bounds *)

\* Nothing has been asked for yet.
LEMMA InitIsInvariant == Init => IInv
<1> SUFFICES ASSUME Init PROVE IInv
  OBVIOUS
<1>1. CoreTypes
  BY DEF Init, CoreTypes, Each, BatchStates, ItemStates, JobStates
<1>2. /\ \A b \in Batches, a \in Apps :
           /\ item[b][a] = "none" /\ link[b][a] = "none"
           /\ install[b][a] = "absent" /\ cleanup[b][a] = "absent" /\ thread[b][a] = "off"
      /\ \A b \in Batches : batch[b] = "none" /\ resetting[b] = "none"
      /\ main = "loop" /\ seen = "none"
  BY DEF Init, Each
<1>3. /\ \A b \in Batches : Members(b) = {} /\ Pending(b) = {} /\ Queued(b) = {} /\ Owed(b) = {}
      /\ \A b \in Batches, a \in Apps : ~Cleaning(b, a)
  BY <1>2 DEF Members, Pending, Queued, Owed, Cleaning
<1>4. Places /\ Unclaimed /\ Empty /\ OneClaimant
  BY <1>2, <1>3 DEF Places, Unclaimed, Empty, OneClaimant
<1>5. OneSetupPerBatch /\ Promised /\ LinkedAtWork /\ Recorded /\ CleanedOnce /\ CancelLeavesNothing
  BY <1>2, <1>3 DEF OneSetupPerBatch, Claimed, Promised, LinkedAtWork, Recorded, CleanedOnce,
                    CancelLeavesNothing
<1>6. FirstCleanup
  <2>1. NoCleanupYet BY <1>2 DEF NoCleanupYet
  <2>2. budget \in [Bounds -> Nat] BY BoundAssumption DEF Init, Bounds
  <2>3. budget.resets = MaxResets BY DEF Init
  <2> QED BY <2>1, <2>2, <2>3, BoundAssumption DEF FirstCleanup
<1>7. RestTypes
  <2>1. 1 \in 1 .. MaxParallel BY BoundAssumption
  <2> QED BY <2>1 DEF Init, RestTypes, Each, JobStates
<1>8. Numbers
  <2>1. \A a \in Apps : 0 \in 0 .. Cardinality(Apps) - 1
    <3>1. ASSUME NEW a \in Apps PROVE 0 \in 0 .. Cardinality(Apps) - 1
      <4>1. Cardinality(Apps) \in Nat /\ Cardinality(Apps) # 0
        BY BoundAssumption, FS_CardinalityType, FS_EmptySet
      <4> QED BY <4>1
    <3> QED BY <3>1
  <2> QED BY <1>3, <2>1 DEF Init, Numbers, Numbering, Each
<1> QED BY <1>1, <1>4, <1>5, <1>6, <1>7, <1>8 DEF IInv, Core

\* The invariant the theorems rest on.
THEOREM Invariance == Spec => []IInv
<1>1. IInv /\ [Next]_vars => IInv'
  BY CoreStep, RestStep, NumbersStep DEF IInv
<1> QED BY <1>1, InitIsInvariant, PTL DEF Spec

\* One app of a batch is set up at a time: no two callers of continue_batch both
\* claim one, and none claims one while the job of another is to be created or
\* under way, whatever is cancelled, reset or appended meanwhile and whichever
\* process is restarted.
THEOREM OneAtATime == Spec => []OneSetupPerBatch
<1>1. IInv => OneSetupPerBatch
  BY DEF IInv, Core
<1> QED BY <1>1, Invariance, PTL

\* The final state of a batch is true: a cancelled one has nothing left to claim,
\* and until a clean-up is asked for one that succeeded set up all of its apps.
THEOREM TrueEndStates == Spec => []EndStatesAreTrue
<1>1. IInv => TypeOK
  <2> SUFFICES ASSUME IInv PROVE TypeOK
    OBVIOUS
  <2>1. CoreTypes /\ RestTypes /\ Numbering(ordinal) /\ Numbering(priority)
    BY DEF IInv, Core, Numbers
  <2> QED BY <2>1 DEF TypeOK, CoreTypes, RestTypes, Numbering
<1>2. IInv => CancelLeavesNothing
  BY DEF IInv, Core
<1>3. IInv => SuccessIsComplete
  BY DEF IInv, Core, FirstCleanup, NoCleanupYet, SuccessIsComplete, Members
<1>4. IInv => EndStatesAreTrue
  BY <1>1, <1>2, <1>3 DEF EndStatesAreTrue
<1> QED BY <1>4, Invariance, PTL

-----------------------------------------------------------------------------
(* Dependencies first: what an app needs was set up before its job is created. *)

(* Apps that are or were installed; only jobs that end move an app in or out. *)
Reached == installed \union removed

(* A job or an item that succeeded was about such an app. *)
DoneReached ==
  \A b \in Batches, a \in Apps :
    "succeeded" \in {install[b][a], cleanup[b][a], item[b][a]} => a \in Reached

(* A plan has what its apps need, unless it was installed already; so has a batch. *)
Planned ==
  /\ \A o \in Owners : \A a \in asked[o] : Needs[a] \subseteq asked[o] \union Reached
  /\ \A b \in Batches : \A a \in Members(b) : Needs[a] \subseteq Members(b) \union Reached

(* A claim whose job is still to be created has all its app needs. *)
OwedReached == \A b \in Batches : \A a \in Owed(b) : Needs[a] \subseteq Reached

DepsInv == DoneReached /\ Planned /\ OwedReached

\* No step takes an app out of those that are or were installed.
LEMMA ReachedGrows ==
  ASSUME [Next]_vars
  PROVE  Reached \subseteq Reached'
<1> DEFINE Same == UNCHANGED <<installed, removed>>
<1>1. Same => Reached \subseteq Reached'
  BY DEF Reached
<1>2. \A a : Put(a) \/ Remove(a) => Reached \subseteq Reached'
  BY DEF Reached, Put, Remove
<1>0. \A a : Leave(a) => Reached \subseteq Reached'
  BY <1>1, <1>2 DEF Leave
<1>3. CASE Worker
  <2>1. MainContinue \/ MainEnqueue \/ MainCleanup \/ AdvanceRead \/ AdvanceWrite => Same
    BY DEF MainContinue, MainEnqueue, MainCleanup, AdvanceRead, AdvanceWrite, jobs
  <2>2. EndForeign => Leave(mainApp) \/ Put(mainApp) \/ Remove(mainApp)
    BY DEF EndForeign
  <2>3. \A outcome \in Over :
          EndInstall(outcome) \/ EndCleanup(outcome)
            => Leave(mainApp) \/ Put(mainApp) \/ Remove(mainApp)
    BY DEF EndInstall, EndCleanup
  <2>4. \A a \in Apps : RunForeign(a) => Same
    BY DEF RunForeign
  <2>5. \A b \in Batches, a \in Apps :
          RunInstall(b, a) \/ RunCleanup(b, a) \/ ReconcileItem(b, a) => Same
    BY DEF RunInstall, RunCleanup, ReconcileItem, jobs
  <2>6. \A b \in Batches : ReconcileBatch(b) => Same
    BY DEF ReconcileBatch, jobs
  <2> QED BY <1>0, <1>1, <1>2, <1>3, <2>1, <2>2, <2>3, <2>4, <2>5, <2>6 DEF Worker
<1>4. CASE Request
  BY <1>1, <1>4 DEF Request, Ask, Submit, CreateForeign, SetParallel, Reorder, PauseDownload,
                    ResumeDownload, CancelJob, CancelStart, ResetStart, jobs
<1>5. CASE WorkerCrash \/ ApiCrash \/ UNCHANGED vars
  BY <1>1, <1>5 DEF WorkerCrash, ApiCrash, vars, jobs
<1>6. ASSUME NEW b \in Batches, NEW a \in Apps, Manager(b, a) \/ Thread(b, a) PROVE Same
  BY <1>6 DEF Manager, Thread, StopDownload, StartDownload, BeginDownload, EndDownload,
              AbandonDownload, ThreadContinue, ThreadEnqueue, jobs
<1>7. ASSUME NEW b \in Batches, Answer(b) PROVE Same
  BY <1>7 DEF Answer, CancelFinish, ResetWrite, ResetEnqueue, ResetFinish, jobs
<1> QED BY <1>1, <1>3, <1>4, <1>5, <1>6, <1>7 DEF Next

\* The step reports no success that was not reported before.
Quiet ==
  \A b \in Batches, a \in Apps :
    /\ install'[b][a] = "succeeded" => install[b][a] = "succeeded"
    /\ cleanup'[b][a] = "succeeded" => cleanup[b][a] = "succeeded"
    /\ item'[b][a] = "succeeded" => item[b][a] = "succeeded"

\* Such a step keeps what a success says.
LEMMA QuietStep ==
  ASSUME DoneReached, Reached \subseteq Reached', Quiet
  PROVE  DoneReached'
BY DEF DoneReached, Quiet

\* Creating a job reports none.
LEMMA EnqueueQuiet ==
  ASSUME CoreTypes, NEW b \in Batches, NEW a \in Apps, Enqueue(b, a), UNCHANGED cleanup
  PROVE  Quiet
<1>1. CASE UNCHANGED <<install, item>>
  BY <1>1 DEF Quiet
<1>2. CASE \A c \in Batches, x \in Apps :
             /\ install'[c][x] = IF c = b /\ x = a THEN "queued" ELSE install[c][x]
             /\ item'[c][x] = IF c = b /\ x = a THEN "queued" ELSE item[c][x]
  <2>1. \A c \in Batches, x \in Apps :
          install'[c][x] \in {"queued", install[c][x]} /\ item'[c][x] \in {"queued", item[c][x]}
    BY <1>2
  <2> QED BY <2>1 DEF Quiet
<1> QED BY <1>1, <1>2, EnqueueIs

\* Nor does creating a clean-up.
LEMMA EnqueueCleanupQuiet ==
  ASSUME CoreTypes, NEW b \in Batches, NEW a \in Apps, EnqueueCleanup(b, a), UNCHANGED install
  PROVE  Quiet
<1>1. CASE UNCHANGED <<cleanup, item>>
  BY <1>1 DEF Quiet
<1>2. CASE \A c \in Batches, x \in Apps :
             /\ cleanup'[c][x] = IF c = b /\ x = a THEN "queued" ELSE cleanup[c][x]
             /\ item'[c][x] = IF c = b /\ x = a THEN "resetting" ELSE item[c][x]
  <2>1. \A c \in Batches, x \in Apps :
          cleanup'[c][x] \in {"queued", cleanup[c][x]} /\ item'[c][x] \in {"resetting", item[c][x]}
    BY <1>2
  <2> QED BY <2>1 DEF Quiet
<1> QED BY <1>1, <1>2, EnqueueCleanupIs

\* A step of the worker reports the success of the job that just ended, or of
\* the item whose job succeeded.
LEMMA WorkerDone ==
  ASSUME Core, DoneReached, Reached \subseteq Reached', Worker
  PROVE  DoneReached'
<1>1. CoreTypes
  BY DEF Core
<1>2. MainContinue => Quiet
  <2>1. ASSUME MainContinue, NEW a \in Apps, ClaimNext(mainBatch, a) PROVE Quiet
    <3>1. mainBatch \in Batches
      BY <2>1 DEF MainContinue, Core, Places
    <3> QED BY <1>1, <2>1, <3>1, ClaimIs DEF MainContinue, jobs, Quiet
  <2>2. ASSUME MainContinue, UNCHANGED item PROVE Quiet
    BY <2>2 DEF MainContinue, jobs, Quiet
  <2> QED BY <2>1, <2>2 DEF MainContinue, FinishBatch, NothingToClaim
<1>3. MainEnqueue => Quiet
  <2>1. HAVE MainEnqueue
  <2>2. mainBatch \in Batches /\ mainApp \in Apps
    BY <2>1 DEF MainEnqueue, Core, Places
  <2> QED BY <1>1, <2>1, <2>2, EnqueueQuiet DEF MainEnqueue
<1>4. MainCleanup => Quiet
  <2>1. HAVE MainCleanup
  <2>2. mainBatch \in Batches /\ mainApp \in Apps
    BY <2>1 DEF MainCleanup, Core, Places
  <2> QED BY <1>1, <2>1, <2>2, EnqueueCleanupQuiet DEF MainCleanup
<1>5. AdvanceRead \/ EndForeign => Quiet
  BY DEF AdvanceRead, EndForeign, items, jobs, Quiet
<1>6. \A a \in Apps : RunForeign(a) => Quiet
  BY DEF RunForeign, items, Quiet
<1>7. \A b \in Batches, a \in Apps : RunInstall(b, a) \/ RunCleanup(b, a) \/ ReconcileItem(b,
     a) => Quiet
  <2>1. ASSUME NEW b \in Batches, NEW a \in Apps, RunInstall(b, a) PROVE Quiet
    BY <1>1, <2>1 DEF RunInstall, CoreTypes, items, Quiet
  <2>2. ASSUME NEW b \in Batches, NEW a \in Apps, RunCleanup(b, a) PROVE Quiet
    BY <1>1, <2>2 DEF RunCleanup, CoreTypes, items, Quiet
  <2>3. ASSUME NEW b \in Batches, NEW a \in Apps, ReconcileItem(b, a) PROVE Quiet
    BY <2>3 DEF ReconcileItem, items, jobs, Quiet
  <2> QED BY <2>1, <2>2, <2>3
<1>8. \A b \in Batches : ReconcileBatch(b) => Quiet
  <2>1. ASSUME NEW b \in Batches, ReconcileBatch(b), NEW a \in Apps, ClaimNext(b, a) PROVE Quiet
    BY <1>1, <2>1, ClaimIs DEF ReconcileBatch, jobs, Quiet
  <2>2. ASSUME NEW b \in Batches, ReconcileBatch(b), UNCHANGED item PROVE Quiet
    BY <2>2 DEF ReconcileBatch, jobs, Quiet
  <2> QED BY <2>1, <2>2 DEF ReconcileBatch, FinishBatch
<1>9. ASSUME NEW outcome \in Over, EndInstall(outcome) PROVE DoneReached'
  <2>1. mainBatch \in Batches /\ mainApp \in Apps
    BY <1>9 DEF EndInstall, Core, Places
  <2>2. /\ \A b \in Batches, a \in Apps :
             install'[b][a] = IF b = mainBatch /\ a = mainApp THEN outcome ELSE install[b][a]
        /\ UNCHANGED <<cleanup, item>>
    BY <1>1, <1>9, <2>1 DEF EndInstall, CoreTypes, items
  <2>3. outcome = "succeeded" => mainApp \in Reached'
    BY <1>9 DEF EndInstall, Put, Reached
  <2> QED BY <2>2, <2>3 DEF DoneReached
<1>10. ASSUME NEW outcome \in Over, EndCleanup(outcome) PROVE DoneReached'
  <2>1. mainBatch \in Batches /\ mainApp \in Apps
    BY <1>10 DEF EndCleanup, Core, Places
  <2>2. /\ \A b \in Batches, a \in Apps :
             cleanup'[b][a] = IF b = mainBatch /\ a = mainApp THEN outcome ELSE cleanup[b][a]
        /\ UNCHANGED <<install, item>>
    BY <1>1, <1>10, <2>1 DEF EndCleanup, CoreTypes, items
  <2>3. outcome = "succeeded" => mainApp \in Reached'
    BY <1>10 DEF EndCleanup, Remove, Reached
  <2> QED BY <2>2, <2>3 DEF DoneReached
<1>11. AdvanceWrite => DoneReached'
  <2>1. HAVE AdvanceWrite
  <2>2. mainBatch \in Batches /\ mainApp \in Apps /\ UNCHANGED <<install, cleanup>>
    BY <2>1 DEF AdvanceWrite, Core, Places, jobs
  <2>3. \A b \in Batches, a \in Apps :
          item'[b][a] = "succeeded" =>
            \/ item[b][a] = "succeeded"
            \/ b = mainBatch /\ a = mainApp /\ Outcome(mainBatch, mainApp) = "succeeded"
    <3>1. CASE AdvanceCancelled
      BY <1>1, <2>2, <3>1 DEF AdvanceCancelled, CoreTypes
    <3>2. CASE AdvanceResetting
      <4>1. \/ item' = [item EXCEPT ![mainBatch][mainApp] = "reset_failed"]
            \/ item' = [item EXCEPT ![mainBatch][mainApp] = "reset"]
        BY <3>2 DEF AdvanceResetting
      <4> QED BY <1>1, <2>2, <4>1 DEF CoreTypes
    <3>3. CASE AdvanceInstall
      <4> DEFINE blocked == IF Outcome(mainBatch, mainApp) = "succeeded"
                            THEN {} ELSE Blocked(mainBatch, mainApp)
      <4>1. item' = [item EXCEPT ![mainBatch] =
                       [a \in Apps |-> IF a = mainApp THEN Outcome(mainBatch, mainApp)
                                       ELSE IF a \in blocked THEN "blocked_by_dependency" ELSE @[a]]]
        BY <3>3 DEF AdvanceInstall
      <4> HIDE DEF blocked
      <4> QED BY <1>1, <2>2, <4>1 DEF CoreTypes
    <3> QED BY <2>1, <3>1, <3>2, <3>3 DEF AdvanceWrite
  <2>4. Outcome(mainBatch, mainApp) = "succeeded" => mainApp \in Reached
    BY <2>2 DEF Outcome, DoneReached
  <2> QED BY <2>2, <2>3, <2>4 DEF DoneReached
<1> QED BY <1>2, <1>3, <1>4, <1>5, <1>6, <1>7, <1>8, <1>9, <1>10, <1>11, QuietStep DEF Worker

\* No other step reports a success.
LEMMA DoneStep ==
  ASSUME Core, RestTypes, DoneReached, [Next]_vars
  PROVE  DoneReached'
<1>1. CoreTypes /\ Reached \subseteq Reached'
  BY ReachedGrows DEF Core
<1>2. CASE Worker
  BY <1>1, <1>2, WorkerDone
<1>3. CASE Request
  <2>1. ASSUME NEW o \in Owners, NEW n \in 1 .. MaxParallel, Submit(o, n) PROVE Quiet
    <3>1. UNCHANGED <<install, cleanup>>
      BY <2>1 DEF Submit, jobs
    <3>2. CASE UNCHANGED item
      BY <3>1, <3>2 DEF Quiet
    <3>3. ASSUME NEW b \in Batches, Add(b, asked[o] \ Members(b), n) PROVE Quiet
      <4>1. item' = [item EXCEPT ![b] =
                       [a \in Apps |-> IF a \in asked[o] \ Members(b) THEN "pending" ELSE @[a]]]
        BY <3>3 DEF Add
      <4>2. \A c \in Batches, x \in Apps : item'[c][x] \in {"pending", item[c][x]}
        BY <1>1, <4>1 DEF CoreTypes
      <4> QED BY <3>1, <4>2 DEF Quiet
    <3> QED BY <2>1, <3>2, <3>3 DEF Submit, Active
  <2>2. ASSUME NEW b \in Batches, NEW a \in Apps, CancelJob(b, a) PROVE Quiet
    BY <1>1, <2>2 DEF CancelJob, items, CoreTypes, Quiet
  <2>3. ASSUME NEW b \in Batches, CancelStart(b) PROVE Quiet
    BY <1>1, <2>3 DEF CancelStart, items, CoreTypes, Quiet
  <2>4. ASSUME NEW o \in Owners, NEW requested \in Selections, Ask(o, requested) PROVE Quiet
    BY <2>4 DEF Ask, items, jobs, Quiet
  <2>5. ASSUME NEW a \in Apps, CreateForeign(a) PROVE Quiet
    BY <2>5 DEF CreateForeign, items, Quiet
  <2>6. ASSUME NEW b \in Batches, NEW n, NEW listed, NEW a,
               \/ SetParallel(b, n) \/ Reorder(b, listed) \/ PauseDownload(b, a)
               \/ ResumeDownload(b, a) \/ ResetStart(b)
        PROVE  Quiet
    BY <2>6 DEF SetParallel, Reorder, PauseDownload, ResumeDownload, ResetStart, items, jobs, Quiet
  <2> QED BY <1>1, <1>3, <2>1, <2>2, <2>3, <2>4, <2>5, <2>6, QuietStep DEF Request
<1>4. CASE WorkerCrash \/ ApiCrash \/ UNCHANGED vars
  <2>1. Quiet
    BY <1>4 DEF WorkerCrash, ApiCrash, vars, items, jobs, Quiet
  <2> QED BY <1>1, <2>1, QuietStep
<1>5. ASSUME NEW b \in Batches, NEW a \in Apps, Manager(b, a) \/ Thread(b, a) PROVE Quiet
  <2>1. CASE ThreadContinue(b, a)
    <3>1. ASSUME NEW x \in Apps, ClaimNext(b, x) PROVE Quiet
      BY <1>1, <2>1, <3>1, ClaimIs DEF ThreadContinue, jobs, Quiet
    <3>2. CASE UNCHANGED item
      BY <2>1, <3>2 DEF ThreadContinue, jobs, Quiet
    <3> QED BY <2>1, <3>1, <3>2 DEF ThreadContinue, FinishBatch, NothingToClaim
  <2>2. CASE ThreadEnqueue(b, a)
    <3>1. target[b][a] \in Apps
      BY <2>2 DEF ThreadEnqueue, Core, Places
    <3> QED BY <1>1, <2>2, <3>1, EnqueueQuiet DEF ThreadEnqueue
  <2>3. CASE \/ StopDownload(b, a) \/ StartDownload(b, a) \/ BeginDownload(b, a)
             \/ EndDownload(b, a) \/ AbandonDownload(b, a)
    BY <2>3 DEF StopDownload, StartDownload, BeginDownload, EndDownload, AbandonDownload,
                items, jobs, Quiet
  <2> QED BY <1>5, <2>1, <2>2, <2>3 DEF Manager, Thread
<1>6. ASSUME NEW b \in Batches, Answer(b) PROVE Quiet
  <2>1. CASE CancelFinish(b)
    BY <1>1, <2>1 DEF CancelFinish, DropPending, CoreTypes, jobs, Quiet
  <2>2. CASE ResetWrite(b)
    <3> DEFINE unfinished == {a \in Members(b) : item[b][a] \in {"failed", "cancelled",
         "reset_failed"}}
    <3>1. /\ item' = [item EXCEPT ![b] =
               [a \in Apps |-> IF a \in unfinished THEN "reset_pending"
                               ELSE IF a \in Members(b)
                                    /\ @[a] # "succeeded" THEN "reset" ELSE @[a]]]
          /\ UNCHANGED <<install, cleanup>>
      BY <2>2 DEF ResetWrite, jobs
    <3> HIDE DEF unfinished
    <3> QED BY <1>1, <3>1 DEF CoreTypes, Quiet
  <2>3. CASE ResetEnqueue(b)
    <3>1. resetApp[b] \in Apps
      BY <2>3 DEF ResetEnqueue, Core, Places
    <3> QED BY <1>1, <2>3, <3>1, EnqueueCleanupQuiet DEF ResetEnqueue
  <2>4. CASE ResetFinish(b)
    BY <2>4 DEF ResetFinish, items, jobs, Quiet
  <2> QED BY <1>6, <2>1, <2>2, <2>3, <2>4 DEF Answer
<1> QED BY <1>1, <1>2, <1>3, <1>4, <1>5, <1>6, QuietStep DEF Next

\* A plan has what the apps it installs need.
LEMMA PlanHasNeeds ==
  ASSUME NEW requested \in SUBSET Apps, NEW a \in Plan(requested)
  PROVE  Needs[a] \subseteq Plan(requested) \union Reached
<1>1. a \in Apps /\ Needs[a] \subseteq Apps
  BY NeedsAssumption DEF Plan, Closure
<1>2. \A d \in Needs[a] : d \in Closure(requested)
  BY <1>1 DEF Plan, Closure, Closed
<1> QED BY <1>1, <1>2 DEF Plan, Reached

\* Only requests change the plans and the batches, and they add whole plans.
LEMMA PlannedStep ==
  ASSUME Core, RestTypes, Planned, [Next]_vars
  PROVE  Planned'
<1>1. Reached \subseteq Reached'
  BY ReachedGrows
<1>2. ASSUME \A o \in Owners : asked'[o] \in {asked[o], {}}, Kept
      PROVE  Planned'
  BY <1>1, <1>2 DEF Planned, Kept
<1>3. ASSUME NEW o \in Owners, NEW requested \in Selections, Ask(o, requested) PROVE Planned'
  <2>1. Kept
    BY <1>3, AskCore
  <2>2. requested \in SUBSET Apps
    BY NeedsAssumption
  <2>3. asked' = [asked EXCEPT ![o] = Plan(requested)]
    BY <1>3 DEF Ask
  <2>4. \A p \in Owners : asked'[p] = IF p = o THEN Plan(requested) ELSE asked[p]
    BY <2>3 DEF RestTypes
  <2>5. \A a \in Plan(requested) : Needs[a] \subseteq Plan(requested) \union Reached
    BY <2>2, PlanHasNeeds
  <2> QED BY <1>1, <2>1, <2>4, <2>5 DEF Planned, Kept
<1>4. ASSUME NEW o \in Owners, NEW n \in 1 .. MaxParallel, Submit(o, n) PROVE Planned'
  <2>1. \A p \in Owners : asked'[p] \in {asked[p], {}}
    BY <1>4 DEF Submit, RestTypes
  <2>2. asked[o] \subseteq Apps
    BY DEF RestTypes
  <2>3. CASE UNCHANGED item
    <3>1. Kept
      BY <2>3 DEF Kept, Members
    <3> QED BY <1>2, <2>1, <3>1
  <2>4. ASSUME NEW b \in Batches,
               item' = [item EXCEPT ![b] =
                 [a \in Apps |-> IF a \in asked[o] \ Members(b) THEN "pending" ELSE @[a]]]
        PROVE  Planned'
    <3>1. /\ Members(b)' = Members(b) \union asked[o]
          /\ \A c \in Batches : c # b => Members(c)' = Members(c)
      BY <2>2, <2>4 DEF Core, CoreTypes, Members
    <3>2. \A a \in Members(b)' : Needs[a] \subseteq Members(b)' \union Reached
      BY <3>1 DEF Planned
    <3> QED BY <1>1, <2>1, <3>1, <3>2 DEF Planned
  <2> QED BY <1>4, <2>3, <2>4 DEF Submit, Add, Active
<1>5. UNCHANGED asked => \A o \in Owners : asked'[o] \in {asked[o], {}}
  OBVIOUS
<1>6. CASE Kept
  <2>1. CASE Worker
    BY <1>2, <1>5, <1>6, <2>1, WorkerFrame DEF api
  <2>2. CASE Request
    <3>1. \/ UNCHANGED asked
          \/ \E o \in Owners, requested \in Selections : Ask(o, requested)
          \/ \E o \in Owners, n \in 1 .. MaxParallel : Submit(o, n)
      BY <2>2 DEF Request, CreateForeign, SetParallel, Reorder, PauseDownload, ResumeDownload,
                  CancelJob, CancelStart, ResetStart, api
    <3> QED BY <1>2, <1>3, <1>4, <1>5, <1>6, <3>1
  <2>3. CASE WorkerCrash \/ ApiCrash \/ UNCHANGED vars
    BY <1>2, <1>6, <2>3 DEF WorkerCrash, ApiCrash, vars, api
  <2>4. ASSUME NEW b \in Batches, NEW a \in Apps, Manager(b, a) \/ Thread(b, a) PROVE Planned'
    BY <1>2, <1>5, <1>6, <2>4, ThreadFrame DEF api
  <2>5. ASSUME NEW b \in Batches, Answer(b) PROVE Planned'
    BY <1>2, <1>5, <1>6, <2>5, AnswerFrame
  <2> QED BY <2>1, <2>2, <2>3, <2>4, <2>5 DEF Next
<1> QED BY <1>4, <1>6, CoreStep

\* An app that is claimed has all that it needs: what is in its batch succeeded,
\* the rest was installed when the batch was planned.
LEMMA ClaimHasNeeds ==
  ASSUME Core, DoneReached, Planned, NEW b \in Batches, NEW a \in Apps, ClaimNext(b, a)
  PROVE  Needs[a] \subseteq Reached
<1>1. a \in Members(b) /\ Needs[a] \subseteq Apps
      /\ \A d \in Needs[a] \intersect Members(b) : item[b][d] = "succeeded"
  BY NeedsAssumption DEF ClaimNext, First, Ready, Pending, Members
<1> QED BY <1>1 DEF DoneReached, Planned

\* What a claim needs stays reached until its job is created.
LEMMA OwedStep ==
  ASSUME Core, RestTypes, DepsInv, [Next]_vars
  PROVE  OwedReached'
<1>1. Reached \subseteq Reached' /\ CoreTypes
  BY ReachedGrows DEF Core
<1>2. ASSUME \A b \in Batches : Owed(b)' \subseteq Owed(b)
      PROVE  OwedReached'
  BY <1>1, <1>2 DEF DepsInv, OwedReached
<1>3. ASSUME NEW b \in Batches, NEW a \in Apps, ClaimNext(b, a),
             \A c \in Batches : Owed(c)' \subseteq Owed(c) \union (IF c = b THEN {a} ELSE {})
      PROVE  OwedReached'
  <2>1. Needs[a] \subseteq Reached
    BY <1>3, ClaimHasNeeds DEF DepsInv
  <2> QED BY <1>1, <1>3, <2>1 DEF DepsInv, OwedReached
<1>4. ASSUME UNCHANGED <<thread, target>>, main' # "enqueue"
      PROVE  OwedReached'
  <2>1. \A b \in Batches : Owed(b)' \subseteq Owed(b)
    BY <1>4 DEF Owed
  <2> QED BY <1>2, <2>1
<1>5. ASSUME UNCHANGED <<thread, target>>, NEW b \in Batches, NEW a \in Apps, ClaimNext(b, a),
             At("enqueue", b, a)
      PROVE  OwedReached'
  <2>1. \A c \in Batches : Owed(c)' \subseteq Owed(c) \union (IF c = b THEN {a} ELSE {})
    BY <1>5 DEF Owed, At
  <2> QED BY <1>3, <1>5, <2>1
<1>6. ASSUME UNCHANGED <<main, mainBatch, mainApp, target>>, NEW b \in Batches, NEW a \in Apps,
             NEW place \in {"off", "start", "fetch", "continue"},
             thread' = [thread EXCEPT ![b][a] = place]
      PROVE  OwedReached'
  <2>1. \A c \in Batches : Owed(c)' \subseteq Owed(c)
    BY <1>1, <1>6 DEF Owed, CoreTypes
  <2> QED BY <1>2, <2>1
<1>7. CASE UNCHANGED <<main, mainBatch, mainApp, thread, target>>
  <2>1. \A b \in Batches : Owed(b)' \subseteq Owed(b)
    BY <1>7 DEF Owed
  <2> QED BY <1>2, <2>1
<1>8. CASE Worker
  <2>0. UNCHANGED <<thread, target>>
    BY <1>8, WorkerFrame DEF threads
  <2>1. ASSUME MainContinue PROVE OwedReached'
    <3>1. mainBatch \in Batches
      BY <2>1 DEF MainContinue, Core, Places
    <3>2. Loop => main' # "enqueue"
      BY DEF Loop, At
    <3> QED BY <1>4, <1>5, <2>0, <2>1, <3>1, <3>2 DEF MainContinue
  <2>2. MainEnqueue \/ MainCleanup \/ AdvanceRead \/ EndForeign => main' # "enqueue"
    BY DEF MainEnqueue, MainCleanup, AdvanceRead, EndForeign, Loop, At
  <2>3. AdvanceWrite => main' # "enqueue"
    BY DEF AdvanceWrite, AdvanceCancelled, AdvanceResetting, AdvanceInstall, Loop, At
  <2>4. \A outcome \in Over : EndInstall(outcome) \/ EndCleanup(outcome) => main' # "enqueue"
    BY DEF EndInstall, EndCleanup, Loop, At
  <2>5. \A a \in Apps : RunForeign(a) => main' # "enqueue"
    BY DEF RunForeign, At
  <2>6. \A b \in Batches, a \in Apps :
          RunInstall(b, a) \/ RunCleanup(b, a) \/ ReconcileItem(b, a) => main' # "enqueue"
    BY DEF RunInstall, RunCleanup, ReconcileItem, At
  <2>7. ASSUME NEW b \in Batches, ReconcileBatch(b) PROVE OwedReached'
    BY <1>5, <1>7, <2>0, <2>7 DEF ReconcileBatch
  <2> QED BY <1>4, <1>8, <2>0, <2>1, <2>2, <2>3, <2>4, <2>5, <2>6, <2>7 DEF Worker
<1>9. CASE Request
  <2>1. UNCHANGED <<main, mainBatch, mainApp, thread, target>>
    BY <1>9 DEF Request, Ask, Submit, CreateForeign, SetParallel, Reorder, PauseDownload,
                ResumeDownload, CancelJob, CancelStart, ResetStart, worker, threads
  <2> QED BY <1>7, <2>1
<1>10. CASE WorkerCrash
  <2>1. main' # "enqueue" /\ \A b \in Batches, x \in Apps : thread'[b][x] = "off"
    BY <1>10 DEF WorkerCrash, Loop, At, Each
  <2>2. \A b \in Batches : Owed(b)' \subseteq Owed(b)
    BY <2>1 DEF Owed
  <2> QED BY <1>2, <2>2
<1>11. CASE ApiCrash \/ UNCHANGED vars
  <2>1. UNCHANGED <<main, mainBatch, mainApp, thread, target>>
    BY <1>11 DEF ApiCrash, vars, worker, threads
  <2> QED BY <1>7, <2>1
<1>12. ASSUME NEW b \in Batches, NEW a \in Apps, Manager(b, a) \/ Thread(b, a) PROVE OwedReached'
  <2>0. UNCHANGED <<main, mainBatch, mainApp>>
    BY <1>12, ThreadFrame DEF worker
  <2>1. CASE StopDownload(b, a)
    BY <1>7, <2>0, <2>1 DEF StopDownload
  <2>2. CASE StartDownload(b, a) \/ BeginDownload(b, a) \/ EndDownload(b,
       a) \/ AbandonDownload(b, a)
    <3>1. UNCHANGED target /\ \E place \in {"off", "start", "fetch", "continue"} :
                                 thread' = [thread EXCEPT ![b][a] = place]
      BY <2>2 DEF StartDownload, BeginDownload, EndDownload, AbandonDownload
    <3> QED BY <1>6, <2>0, <3>1
  <2>3. CASE ThreadContinue(b, a)
    <3>1. ASSUME NEW x \in Apps, ClaimNext(b, x), thread' = [thread EXCEPT ![b][a] = "enqueue"],
                 target' = [target EXCEPT ![b][a] = x]
          PROVE  OwedReached'
      <4>1. \A c \in Batches : Owed(c)' \subseteq Owed(c) \union (IF c = b THEN {x} ELSE {})
        BY <1>1, <2>0, <3>1 DEF Owed, CoreTypes
      <4> QED BY <1>3, <3>1, <4>1
    <3>2. CASE thread' = [thread EXCEPT ![b][a] = "off"] /\ UNCHANGED target
      BY <1>6, <2>0, <3>2
    <3> QED BY <2>3, <3>1, <3>2 DEF ThreadContinue
  <2>4. CASE ThreadEnqueue(b, a)
    <3>1. /\ thread' = [thread EXCEPT ![b][a] = "off"]
          /\ target' = [target EXCEPT ![b][a] = NoApp]
      BY <2>4 DEF ThreadEnqueue
    <3>2. \A c \in Batches : Owed(c)' \subseteq Owed(c)
      BY <1>1, <2>0, <3>1 DEF Owed, CoreTypes
    <3> QED BY <1>2, <3>2
  <2> QED BY <1>12, <2>1, <2>2, <2>3, <2>4 DEF Manager, Thread
<1>13. ASSUME NEW b \in Batches, Answer(b) PROVE OwedReached'
  <2>1. UNCHANGED <<main, mainBatch, mainApp, thread, target>>
    BY <1>13, AnswerFrame DEF worker, threads
  <2> QED BY <1>7, <2>1
<1> QED BY <1>8, <1>9, <1>10, <1>11, <1>12, <1>13 DEF Next

\* A job is only created for the claim that is owed it.
LEMMA CreatedIsOwed ==
  ASSUME Core, OwedReached, [Next]_vars, NEW b \in Batches, NEW a \in Apps,
         install[b][a] = "absent", install'[b][a] = "queued"
  PROVE  Needs[a] \subseteq Reached
<1>1. CoreTypes
  BY DEF Core
<1>2. UNCHANGED install => FALSE
  OBVIOUS
<1>3. CASE Worker
  <2>1. MainContinue \/ MainCleanup \/ AdvanceRead \/ AdvanceWrite \/ EndForeign
          => UNCHANGED install
    BY DEF MainContinue, MainCleanup, AdvanceRead, AdvanceWrite, EndForeign, jobs
  <2>2. /\ \A x \in Apps : RunForeign(x) => UNCHANGED install
        /\ \A c \in Batches : ReconcileBatch(c) => UNCHANGED install
        /\ \A c \in Batches, x \in Apps : RunCleanup(c, x) \/ ReconcileItem(c,
             x) => UNCHANGED install
        /\ \A outcome \in Over : EndCleanup(outcome) => UNCHANGED install
    BY DEF RunForeign, ReconcileBatch, RunCleanup, ReconcileItem, EndCleanup, jobs
  <2>3. ASSUME NEW outcome \in Over, EndInstall(outcome) PROVE FALSE
    <3>1. install' = [install EXCEPT ![mainBatch][mainApp] = outcome]
      BY <2>3 DEF EndInstall
    <3>2. install'[b][a] \in {outcome, install[b][a]}
      BY <1>1, <3>1 DEF CoreTypes
    <3> QED BY <3>2 DEF Over
  <2>4. ASSUME NEW c \in Batches, NEW x \in Apps, RunInstall(c, x) PROVE FALSE
    <3>1. install' = [install EXCEPT ![c][x] = "running"]
      BY <2>4 DEF RunInstall
    <3>2. install'[b][a] \in {"running", install[b][a]}
      BY <1>1, <3>1 DEF CoreTypes
    <3> QED BY <3>2
  <2>5. MainEnqueue
    BY <1>2, <1>3, <2>1, <2>2, <2>3, <2>4 DEF Worker
  <2>6. main = "enqueue" /\ mainBatch \in Batches /\ mainApp \in Apps
        /\ Enqueue(mainBatch, mainApp)
    BY <2>5 DEF MainEnqueue, Core, Places
  <2>7. b = mainBatch /\ a = mainApp
    BY <1>1, <1>2, <2>6, EnqueueIs
  <2> QED BY <2>6, <2>7 DEF OwedReached, Owed
<1>4. CASE Request
  <2>1. ASSUME NEW c \in Batches, NEW x \in Apps, CancelJob(c, x) PROVE FALSE
    BY <1>1, <2>1 DEF CancelJob, CoreTypes
  <2>2. ASSUME NEW c \in Batches, CancelStart(c) PROVE FALSE
    BY <1>1, <2>2 DEF CancelStart, CoreTypes
  <2> QED BY <1>2, <1>4, <2>1, <2>2
          DEF Request, Ask, Submit, CreateForeign, SetParallel, Reorder, PauseDownload,
              ResumeDownload, ResetStart, jobs
<1>5. CASE WorkerCrash \/ ApiCrash \/ UNCHANGED vars
  BY <1>2, <1>5 DEF WorkerCrash, ApiCrash, vars, jobs
<1>6. ASSUME NEW c \in Batches, NEW x \in Apps, Manager(c, x) \/ Thread(c, x)
      PROVE  Needs[a] \subseteq Reached
  <2>1. ThreadEnqueue(c, x)
    BY <1>2, <1>6 DEF Manager, Thread, StopDownload, StartDownload, BeginDownload, EndDownload,
                      AbandonDownload, ThreadContinue, jobs
  <2>2. thread[c][x] = "enqueue" /\ target[c][x] \in Apps /\ Enqueue(c, target[c][x])
    BY <2>1 DEF ThreadEnqueue, Core, Places
  <2>3. b = c /\ a = target[c][x]
    BY <1>1, <1>2, <2>2, EnqueueIs
  <2> QED BY <2>2, <2>3 DEF OwedReached, Owed
<1>7. ASSUME NEW c \in Batches, Answer(c) PROVE FALSE
  BY <1>2, <1>7 DEF Answer, CancelFinish, ResetWrite, ResetEnqueue, ResetFinish, jobs
<1> QED BY <1>3, <1>4, <1>5, <1>6, <1>7 DEF Next

\* An installation is queued only when each app it needs is installed, or was
\* and has been taken away since: whatever order downloads end in, whoever
\* continues the batch and whatever is reordered, cancelled, reset or appended
\* (DependenciesFirst).
THEOREM NeedsComeFirst == Spec => DependenciesFirst
<1>1. Init => DepsInv
  <2> SUFFICES ASSUME Init PROVE DepsInv
    OBVIOUS
  <2>1. /\ \A b \in Batches, a \in Apps :
             install[b][a] = "absent" /\ cleanup[b][a] = "absent" /\ item[b][a] = "none"
        /\ \A o \in Owners : asked[o] = {}
        /\ \A b \in Batches : Members(b) = {} /\ Owed(b) = {}
    BY DEF Init, Each, Members, Owed
  <2> QED BY <2>1 DEF DepsInv, DoneReached, Planned, OwedReached
<1>2. IInv /\ DepsInv /\ [Next]_vars => DepsInv'
  BY DoneStep, PlannedStep, OwedStep DEF IInv, DepsInv
<1>3. IInv /\ DepsInv /\ [Next]_vars =>
        [\A b \in Batches, a \in Apps :
           install[b][a] = "absent" /\ install'[b][a] = "queued"
             => Needs[a] \subseteq installed \union removed]_vars
  BY CreatedIsOwed DEF IInv, DepsInv, Reached
<1> QED BY <1>1, <1>2, <1>3, Invariance, PTL DEF Spec, DependenciesFirst

-----------------------------------------------------------------------------
(* The images an installation fetches, at once or ahead of it (ImageFetch): for
   any callers, images and layers, any number of threads, attempts and failures. *)
Stages  == {"idle", "prepare", "threads", "finish", "rename", "unlink", "discard"}
Errors  == {"none", "refused", "paused"}
EndSet  == {"none", "ok", "refused", "paused", "failed", "broke"}
Pairs   == {x \in Layers \X Nat : x[2] \in Ranges(x[1])}
Flights == [range : Pairs, try : Nat, got : BOOLEAN]
Calls   == [at : Stages, plan : SUBSET DOMAIN LayersOf, reused : [DOMAIN LayersOf -> SUBSET Layers],
            wants : SUBSET Layers, first : SUBSET Layers, prep : SUBSET Layers, todo : SUBSET Pairs,
            flight : SUBSET Flights, live : Nat, wide : BOOLEAN, done : [Layers -> SUBSET Nat],
            error : Errors, end : EndSet]
File(l) == [Ranges(l) -> {"right", "wrong", "hole"}]

FileTypes ==
  /\ DOMAIN blob = Layers /\ DOMAIN part = Layers /\ DOMAIN marks = Layers
  /\ \A l \in Layers : /\ blob[l] # None => blob[l] \in File(l)
                       /\ part[l] # None => part[l] \in File(l)
                       /\ marks[l] \subseteq Ranges(l)
DockerTypes == present \subseteq DOMAIN LayersOf /\ held \subseteq Layers /\ stopping \subseteq Ahead

\* A call's memory, and its threads: no more at work than alive.
CallTypes(f) ==
  /\ fetch[f] \in Calls
  /\ fetch[f].plan \subseteq Range(Images[f])
  /\ \A l \in Layers : fetch[f].done[l] \subseteq Ranges(l)
  /\ fetch[f].live <= (IF fetch[f].wide THEN Wide ELSE Narrow)
  /\ IsFiniteSet(fetch[f].flight) /\ Cardinality(fetch[f].flight) <= fetch[f].live
  /\ fetch[f].at # "threads" => fetch[f].flight = {}
  /\ fetch[f].at \notin {"prepare", "threads"} => fetch[f].todo = {}
  /\ fetch[f].at \notin {"idle", "discard"} => fetch[f].plan # {}
  /\ fetch[f].at \in {"rename", "unlink"} => fetch[f].prep # {}
FetchTypes == fetch \in [Fetchers -> Calls] /\ \A f \in Fetchers : CallTypes(f)

\* The cache of a call that has it to itself.
Cached(l) == blob[l] # None \/ part[l] # None
Cache == \A l \in Layers : /\ blob[l] # None => Whole(blob[l])
                           /\ part[l] # None => \A r \in marks[l] : part[l][r] # "hole"
Idles(f) == fetch[f].todo = {} /\ fetch[f].flight = {} /\ \A l \in Layers : fetch[f].done[l] = {}

\* What a call still fetches was neither fetched by it nor marked before it, and
\* no two of its threads fetch the same.
Rest(f) == fetch[f].todo \cup {t.range : t \in fetch[f].flight}
RestOpen(f) == \A x \in Rest(f) : /\ x[2] \notin fetch[f].done[x[1]]
                                  /\ part[x[1]] # None => x[2] \notin marks[x[1]]
Apart(f) ==
  /\ \A t \in fetch[f].flight : t.range \notin fetch[f].todo
  /\ \A t, u \in fetch[f].flight : t.range = u.range => t = u
\* What it did fetch is in the part file.
Landed(f) ==
  /\ \A l \in Layers : part[l] # None => \A r \in fetch[f].done[l] : part[l][r] # "hole"
  /\ \A t \in fetch[f].flight : t.got /\ part[t.range[1]] # None => part[t.range[1]][t.range[2]] # "hole"
\* From preparation to loading, the layers it needs are there.
There(f) ==
  /\ fetch[f].at \in {"prepare", "finish", "rename", "unlink"} => fetch[f].prep \subseteq fetch[f].wants
  /\ fetch[f].at = "prepare" =>
       /\ \A x \in fetch[f].todo : x[1] \notin fetch[f].prep
       /\ \A l \in fetch[f].wants \ fetch[f].prep : Cached(l)
  /\ fetch[f].at \in {"threads", "finish", "rename", "unlink"} => \A l \in fetch[f].wants : Cached(l)
  /\ fetch[f].at = "rename" => part[NextLayer(f)] # None /\ Whole(part[NextLayer(f)])
  /\ fetch[f].at = "unlink" => blob[NextLayer(f)] # None
Unbroken(f) == fetch[f].end # "broke"

CallInv(f) == RestOpen(f) /\ Apart(f) /\ Landed(f) /\ There(f) /\ Unbroken(f)
Alone == \A f, g \in Fetchers : Busy(f) /\ Busy(g) => f = g
CacheInv == Cache /\ Alone /\ \A f \in Fetchers : CallInv(f) /\ (~Busy(f) => Idles(f))

FetchInv == FileTypes /\ DockerTypes /\ FetchTypes /\ (~shared => CacheInv)

\* What a thread takes up next is neither marked nor fetched already.
TakesTheRest(f) ==
  \A t \in fetch'[f].flight \ fetch[f].flight :
    LET l == t.range[1] IN
    ~t.got /\ ~shared /\ part[l] # None => t.range[2] \notin marks[l]
Keeps == FetchInv' /\ \A f \in Fetchers : TakesTheRest(f)

\* What is first in an order is one of those that are left.
LEMMA FirstIs ==
  ASSUME NEW S, NEW order \in Seq(S), NEW left, left # {}, left \subseteq Range(order)
  PROVE  FirstIn(order, left) \in left
<1> DEFINE T == {j \in DOMAIN order : order[j] \in left}
<1>1. DOMAIN order = 1 .. Len(order) /\ Len(order) \in Nat
  OBVIOUS
<1>2. T \subseteq Nat /\ T # {}
  BY <1>1 DEF Range
<1>3. PICK j \in T : \A m \in T : j <= m
  BY <1>2, Least
<1>4. order[j] \in left /\ \A k \in 1 .. (j - 1) : order[k] \notin left
  BY <1>1, <1>3
<1>5. \E i \in DOMAIN order : order[i] \in left /\ \A k \in 1 .. (i - 1) : order[k] \notin left
  BY <1>4
<1> HIDE DEF T
<1> DEFINE P(i) == order[i] \in left /\ \A k \in 1 .. (i - 1) : order[k] \notin left
<1>6. P(CHOOSE i \in DOMAIN order : P(i))
  BY <1>5
<1> QED BY <1>6 DEF FirstIn

LEMMA NextLayerIs ==
  ASSUME NEW f, fetch[f].prep # {}, fetch[f].prep \subseteq Layers
  PROVE  NextLayer(f) \in fetch[f].prep /\ NextLayer(f) \in Layers
<1>1. Order \in Seq(Layers)
  BY FetchAssumption
<1>2. fetch[f].prep \subseteq Range(Order)
  BY DEF Layers
<1>3. NextLayer(f) \in fetch[f].prep
  BY <1>1, <1>2, FirstIs DEF NextLayer
<1> QED BY <1>3

LEMMA NextImageIs ==
  ASSUME FetchTypes, NEW f \in Fetchers, fetch[f].plan # {}
  PROVE  NextImage(f) \in fetch[f].plan /\ NextImage(f) \in DOMAIN LayersOf
<1>1. Images[f] \in Seq(DOMAIN LayersOf)
  BY FetchAssumption
<1>2. fetch[f].plan \subseteq Range(Images[f]) /\ fetch[f].plan \subseteq DOMAIN LayersOf
  BY DEF FetchTypes, CallTypes, Calls
<1>3. NextImage(f) \in fetch[f].plan
  BY <1>1, <1>2, FirstIs DEF NextImage
<1> QED BY <1>2, <1>3

LEMMA FirstRangeIs ==
  ASSUME NEW left, left # {}, left \subseteq Pairs
  PROVE  FirstRange(left) \in left
<1> DEFINE ls == {x[1] : x \in left}
           T  == {x[2] : x \in {y \in left : y[1] = FirstIn(Order, ls)}}
<1>1. Order \in Seq(Layers) /\ ls # {} /\ ls \subseteq Range(Order)
  BY FetchAssumption DEF Pairs, Layers
<1>2. FirstIn(Order, ls) \in ls
  BY <1>1, FirstIs
<1>3. T # {} /\ T \subseteq Nat
  BY <1>2 DEF Pairs
<1>4. PICK n \in T : \A m \in T : n <= m
  BY <1>3, Least
<1>5. PICK x \in left : x[1] = FirstIn(Order, ls) /\ x[2] = n
  BY <1>4
<1>6. x[1] = FirstIn(Order, ls) /\ \A y \in left : y[1] = x[1] => x[2] <= y[2]
  BY <1>4, <1>5
<1>7. \E z \in left : z[1] = FirstIn(Order, {y[1] : y \in left}) /\ \A y \in left : y[1] = z[1] => z[2] <= y[2]
  BY <1>6
<1> QED BY <1>7 DEF FirstRange

\* A file that is there has ranges.
LEMMA FilesAre == ASSUME NEW l \in Layers, NEW file \in File(l) PROVE file # None
<1>1. Size[l] \in Nat \ {0}
  BY FetchAssumption
<1>2. 1 \in DOMAIN file
  BY <1>1 DEF File, Ranges
<1>3. 1 \notin DOMAIN None
  BY DEF None
<1> QED BY <1>2, <1>3

LEMMA RangesAre == \A l \in Layers : Ranges(l) \subseteq Nat
BY FetchAssumption DEF Ranges

\* A call that is over remembers nothing.
LEMMA OverIs ==
  ASSUME NEW f \in Fetchers, NEW how \in EndSet, fetch[f] = Ended(how)
  PROVE  /\ CallTypes(f) /\ ~Busy(f) /\ Idles(f) /\ fetch[f].end = how
         /\ how # "broke" => CallInv(f)
<1> DEFINE F == fetch[f]
<1>1. F = [at |-> "idle", plan |-> {}, reused |-> [i \in DOMAIN LayersOf |-> {}], wants |-> {}, first |-> {},
           prep |-> {}, todo |-> {}, flight |-> {}, live |-> 0, wide |-> FALSE,
           done |-> [l \in Layers |-> {}], error |-> "none", end |-> how]
  BY DEF Ended
<1> HIDE DEF F
<1>2. /\ F.at = "idle" /\ F.plan = {} /\ F.wants = {} /\ F.prep = {} /\ F.todo = {} /\ F.flight = {}
      /\ F.live = 0 /\ F.wide = FALSE /\ (\A l \in Layers : F.done[l] = {}) /\ F.end = how
  BY <1>1
<1>3. F \in Calls
  BY <1>1 DEF Calls, Stages, Errors
<1>4. IsFiniteSet({}) /\ Cardinality({}) = 0
  BY FS_EmptySet
<1>5. Wide \in Nat /\ Narrow \in Nat
  BY FetchAssumption
<1>6. CallTypes(f)
  BY <1>2, <1>3, <1>4, <1>5 DEF CallTypes, F
<1> QED BY <1>2, <1>6 DEF F, Busy, Idles, CallInv, RestOpen, Rest, Apart, Landed, There, Unbroken

LEMMA OverNext ==
  ASSUME NEW f \in Fetchers, NEW how \in EndSet
  PROVE  (fetch[f] = Ended(how) =>
            /\ CallTypes(f) /\ ~Busy(f) /\ Idles(f)
            /\ how # "broke" => CallInv(f))'
<1>1. fetch[f] = Ended(how) =>
        /\ CallTypes(f) /\ ~Busy(f) /\ Idles(f)
        /\ how # "broke" => CallInv(f)
  BY OverIs
<1> QED BY <1>1, PTL

\* A call that is idle has no part in what others do, and one that changes while
\* it has the cache to itself answers for itself alone.
LEMMA OneMoves ==
  ASSUME FetchInv, NEW f \in Fetchers, fetch' = [fetch EXCEPT ![f] = fetch'[f]],
         CallTypes(f)', FileTypes', DockerTypes', shared => shared',
         ~shared' => /\ Busy(f)' => Busy(f) \/ \A g \in Fetchers : ~Busy(g)
                     /\ Busy(f) \/ UNCHANGED files
                     /\ Cache' /\ CallInv(f)' /\ (~Busy(f)' => Idles(f)'),
         TakesTheRest(f)
  PROVE  Keeps
<1>1. DOMAIN fetch' = Fetchers /\ \A g \in Fetchers : g # f => fetch'[g] = fetch[g]
  BY DEF FetchInv, FetchTypes
<1>2. FetchTypes'
  <2>1. ASSUME NEW g \in Fetchers, g # f PROVE CallTypes(g)'
    BY <1>1, <2>1 DEF FetchInv, FetchTypes, CallTypes
  <2>2. fetch' \in [Fetchers -> Calls]
    BY DEF FetchInv, FetchTypes, CallTypes
  <2> QED BY <2>1, <2>2 DEF FetchTypes
<1>3. ASSUME ~shared' PROVE CacheInv'
  <2>1. Cache' /\ CallInv(f)' /\ (~Busy(f)' => Idles(f)') /\ (Busy(f)' => Busy(f) \/ \A g \in Fetchers : ~Busy(g))
    BY <1>3
  <2>2. Alone'
    BY <1>1, <1>3, <2>1 DEF FetchInv, CacheInv, Alone, Busy
  <2>3. ASSUME NEW g \in Fetchers, g # f PROVE CallInv(g)' /\ (~Busy(g)' => Idles(g)')
    <3>1. fetch'[g] = fetch[g] /\ CallInv(g) /\ (~Busy(g) => Idles(g))
      BY <1>1, <1>3, <2>3 DEF FetchInv, CacheInv
    <3>2. CASE UNCHANGED files
      BY <3>1, <3>2 DEF files, CallInv, RestOpen, Rest, Apart, Landed, There, Cached, NextLayer,
        Unbroken, Busy, Idles
    <3>3. CASE Busy(f)
      <4>1. ~Busy(g)
        BY <1>3, <2>3, <3>3 DEF FetchInv, CacheInv, Alone
      <4>2. /\ fetch'[g].at = "idle" /\ fetch'[g].todo = {} /\ fetch'[g].flight = {}
            /\ (\A l \in Layers : fetch'[g].done[l] = {}) /\ fetch'[g].end # "broke"
        BY <3>1, <4>1 DEF Idles, CallInv, Unbroken, Busy
      <4> QED BY <4>2 DEF CallInv, RestOpen, Rest, Apart, Landed, There, Unbroken, Busy, Idles
    <3> QED BY <1>3, <3>2, <3>3
  <2> QED BY <2>1, <2>2, <2>3 DEF CacheInv
<1> QED BY <1>1, <1>2, <1>3 DEF FetchInv, Keeps, TakesTheRest

\* A call ends: only one that shared the cache with an error nobody expects.
LEMMA EndKeeps ==
  ASSUME FetchInv, NEW f \in Fetchers, NEW how \in EndSet, Ends(f, how),
         how = "broke" => shared, UNCHANGED <<files, shared>>, DockerTypes'
  PROVE  Keeps
<1>1. fetch' = [fetch EXCEPT ![f] = Ended(how)]
  BY DEF Ends
<1>2. fetch'[f] = Ended(how) /\ fetch' = [fetch EXCEPT ![f] = fetch'[f]]
  BY <1>1 DEF FetchInv, FetchTypes
<1>3. CallTypes(f)' /\ ~Busy(f)' /\ Idles(f)' /\ (how # "broke" => CallInv(f)')
  BY <1>2, OverNext
<1>4. FileTypes' /\ (~shared => Cache')
  BY DEF FetchInv, CacheInv, FileTypes, Cache, files
<1>5. TakesTheRest(f)
  BY <1>3 DEF Idles, TakesTheRest
<1> QED BY <1>2, <1>3, <1>4, <1>5, OneMoves

\* Steps that leave the files and what is fetched alone.
LEMMA QuietKeeps ==
  ASSUME FetchInv, NEW f \in Fetchers, fetch' = [fetch EXCEPT ![f] = fetch'[f]],
         CallTypes(f)', DockerTypes', UNCHANGED <<files, shared>>, Busy(f),
         fetch'[f].todo = fetch[f].todo, fetch'[f].flight = fetch[f].flight,
         fetch'[f].done = fetch[f].done, fetch'[f].end = fetch[f].end,
         fetch'[f].at # "idle", ~shared => There(f)'
  PROVE  Keeps
<1>1. FileTypes' /\ (~shared => Cache')
  BY DEF FetchInv, CacheInv, FileTypes, Cache, files
<1>2. ~shared => CallInv(f)'
  BY DEF FetchInv, CacheInv, CallInv, RestOpen, Rest, Apart, Landed, Unbroken, files
<1> QED BY <1>1, <1>2, OneMoves DEF Busy, TakesTheRest

LEMMA CallIs ==
  ASSUME FetchInv, NEW f \in Fetchers
  PROVE  /\ CallTypes(f) /\ fetch[f] \in Calls /\ f \in DOMAIN fetch
         /\ fetch[f].plan \subseteq DOMAIN LayersOf /\ fetch[f].prep \subseteq Layers
         /\ fetch[f].wants \subseteq Layers /\ fetch[f].todo \subseteq Pairs
         /\ ~shared => CallInv(f)
BY DEF FetchInv, FetchTypes, CallTypes, Calls, CacheInv

LEMMA StartKeeps == ASSUME FetchInv, NEW f \in Fetchers, Start(f) PROVE Keeps
<1>1. /\ fetch[f].at = "prepare" /\ fetch[f].prep = {}
      /\ fetch' = [fetch EXCEPT ![f] = [fetch[f] EXCEPT !.at = "threads", !.live = Narrow, !.wide = FALSE]]
      /\ UNCHANGED <<files, docker, stopping, shared>>
  BY DEF Start, Goes
<1>2. /\ fetch'[f] = [fetch[f] EXCEPT !.at = "threads", !.live = Narrow, !.wide = FALSE]
      /\ fetch' = [fetch EXCEPT ![f] = fetch'[f]]
  BY <1>1, CallIs
<1>3. /\ fetch'[f].at = "threads" /\ fetch'[f].live = Narrow /\ fetch'[f].wide = FALSE
      /\ fetch'[f].plan = fetch[f].plan /\ fetch'[f].wants = fetch[f].wants
      /\ fetch'[f].prep = fetch[f].prep /\ fetch'[f].todo = fetch[f].todo
      /\ fetch'[f].flight = fetch[f].flight /\ fetch'[f].done = fetch[f].done /\ fetch'[f].end = fetch[f].end
  BY <1>2, CallIs DEF Calls
<1>4. Narrow \in Nat /\ Cardinality({}) = 0
  BY FetchAssumption, FS_EmptySet
<1>5. CallTypes(f)'
  <2>1. fetch'[f] \in Calls
    BY <1>2, <1>4, CallIs DEF Calls, Stages
  <2>2. fetch[f].flight = {} /\ fetch[f].plan # {} /\ fetch[f].plan \subseteq Range(Images[f])
        /\ IsFiniteSet(fetch[f].flight) /\ \A l \in Layers : fetch[f].done[l] \subseteq Ranges(l)
    BY <1>1, CallIs DEF CallTypes
  <2>3. fetch'[f].live <= (IF fetch'[f].wide THEN Wide ELSE Narrow) /\ Cardinality(fetch'[f].flight) <= fetch'[f].live
    BY <1>3, <1>4, <2>2
  <2> QED BY <1>3, <2>1, <2>2, <2>3 DEF CallTypes
<1>6. ~shared => There(f)'
  BY <1>1, <1>3, CallIs DEF CallInv, There, Cached, files
<1>7. DockerTypes'
  BY <1>1 DEF FetchInv, DockerTypes, docker
<1> QED BY <1>1, <1>2, <1>3, <1>5, <1>6, <1>7, QuietKeeps DEF Busy

LEMMA WidenKeeps == ASSUME FetchInv, NEW f \in Fetchers, Widen(f) PROVE Keeps
<1>1. /\ fetch[f].at = "threads" /\ ~fetch[f].wide
      /\ fetch' = [fetch EXCEPT ![f] = [fetch[f] EXCEPT !.wide = TRUE, !.live = @ + (Wide - Narrow)]]
      /\ UNCHANGED <<files, docker, stopping, shared>>
  BY DEF Widen, Goes
<1>2. /\ fetch'[f] = [fetch[f] EXCEPT !.wide = TRUE, !.live = fetch[f].live + (Wide - Narrow)]
      /\ fetch' = [fetch EXCEPT ![f] = fetch'[f]]
  BY <1>1, CallIs
<1>3. /\ fetch'[f].at = "threads" /\ fetch'[f].live = fetch[f].live + (Wide - Narrow) /\ fetch'[f].wide = TRUE
      /\ fetch'[f].plan = fetch[f].plan /\ fetch'[f].wants = fetch[f].wants
      /\ fetch'[f].prep = fetch[f].prep /\ fetch'[f].todo = fetch[f].todo
      /\ fetch'[f].flight = fetch[f].flight /\ fetch'[f].done = fetch[f].done /\ fetch'[f].end = fetch[f].end
  BY <1>1, <1>2, CallIs DEF Calls
<1>4. /\ fetch[f].live \in Nat /\ fetch[f].live <= Narrow /\ Cardinality(fetch[f].flight) \in Nat
      /\ Cardinality(fetch[f].flight) <= fetch[f].live
  BY <1>1, CallIs, FS_CardinalityType DEF CallTypes, Calls
<1>5. /\ fetch[f].live + (Wide - Narrow) \in Nat /\ fetch[f].live + (Wide - Narrow) <= Wide
      /\ Cardinality(fetch[f].flight) <= fetch[f].live + (Wide - Narrow)
  BY ONLY <1>4, FetchAssumption
<1>6. CallTypes(f)'
  <2>1. fetch'[f] \in Calls
    BY <1>2, <1>5, CallIs DEF Calls
  <2> QED BY <1>1, <1>3, <1>5, <2>1, CallIs DEF CallTypes
<1>7. ~shared => There(f)'
  BY <1>1, <1>3, CallIs DEF CallInv, There, Cached, files
<1>8. DockerTypes'
  BY <1>1 DEF FetchInv, DockerTypes, docker
<1> QED BY <1>1, <1>2, <1>3, <1>6, <1>7, <1>8, QuietKeeps DEF Busy

LEMMA BeginKeeps == ASSUME FetchInv, NEW f \in Fetchers, Begin(f) PROVE Keeps
<1> DEFINE missing == Range(Images[f]) \ present
           layers  == UNION {LayersOf[i] : i \in missing}
<1>1. /\ ~Busy(f) /\ UNCHANGED <<files, docker, stopping>>
      /\ shared' = (shared \/ \E g \in Fetchers : Busy(g))
  BY DEF Begin
<1>2. DockerTypes' /\ FileTypes' /\ (~shared => Cache')
  BY <1>1 DEF FetchInv, DockerTypes, docker, CacheInv, FileTypes, Cache, files
<1>3. missing \subseteq DOMAIN LayersOf /\ layers \subseteq Layers
  <2>1. Images[f] \in Seq(DOMAIN LayersOf) /\ \A i \in DOMAIN LayersOf : LayersOf[i] \subseteq Layers
    BY FetchAssumption
  <2>2. Range(Images[f]) \subseteq DOMAIN LayersOf
    BY <2>1 DEF Range
  <2> QED BY <2>1, <2>2
<1>4. CASE missing = {}
  <2>1. Ends(f, "ok")
    BY <1>4 DEF Begin
  <2>2. fetch' = [fetch EXCEPT ![f] = Ended("ok")]
    BY <2>1 DEF Ends
  <2>3. fetch'[f] = Ended("ok") /\ fetch' = [fetch EXCEPT ![f] = fetch'[f]] /\ "ok" \in EndSet
    BY <2>2, CallIs DEF EndSet
  <2>4. CallTypes(f)' /\ ~Busy(f)' /\ Idles(f)' /\ CallInv(f)'
    BY <2>3, OverNext
  <2> QED BY <1>1, <1>2, <2>3, <2>4, OneMoves DEF Idles, TakesTheRest
<1>5. CASE missing # {}
  <2>1. PICK known \in SUBSET (layers \cap Believed) :
          fetch' = [fetch EXCEPT ![f] = [Idle EXCEPT !.at = "prepare", !.plan = missing,
                      !.reused = [i \in DOMAIN LayersOf |-> LayersOf[i] \cap known],
                      !.wants = layers \ known, !.first = layers \ known, !.prep = layers \ known]]
    BY <1>5 DEF Begin
  <2> DEFINE G == fetch'[f]
  <2> HIDE DEF missing, layers
  <2>2. G = [at |-> "prepare", plan |-> missing, reused |-> [i \in DOMAIN LayersOf |-> LayersOf[i] \cap known],
             wants |-> layers \ known, first |-> layers \ known, prep |-> layers \ known,
             todo |-> {}, flight |-> {}, live |-> 0, wide |-> FALSE,
             done |-> [l \in Layers |-> {}], error |-> "none", end |-> "none"]
    BY <2>1, CallIs DEF Idle, Ended
  <2>3. fetch' = [fetch EXCEPT ![f] = fetch'[f]]
    BY <2>1, CallIs
  <2> HIDE DEF G
  <2>4. /\ G.at = "prepare" /\ G.plan = missing /\ G.wants = layers \ known /\ G.prep = layers \ known
        /\ G.todo = {} /\ G.flight = {} /\ G.live = 0 /\ G.wide = FALSE
        /\ (\A l \in Layers : G.done[l] = {}) /\ G.end = "none"
    BY <2>2
  <2>5. G \in Calls
    <3>1. \A i \in DOMAIN LayersOf : LayersOf[i] \cap known \in SUBSET Layers
      BY FetchAssumption
    <3> QED BY <1>3, <2>2, <3>1 DEF Calls, Stages, Errors, EndSet
  <2>6. CallTypes(f)'
    <3>1. IsFiniteSet({}) /\ Cardinality({}) = 0 /\ Narrow \in Nat /\ missing \subseteq Range(Images[f])
      BY FS_EmptySet, FetchAssumption DEF missing
    <3> QED BY <1>5, <2>4, <2>5, <3>1 DEF CallTypes, G
  <2>7. CallInv(f)' /\ Busy(f)'
    BY <2>4 DEF CallInv, RestOpen, Rest, Apart, Landed, There, Unbroken, Busy, G
  <2>8. TakesTheRest(f)
    BY <2>4 DEF TakesTheRest, G
  <2> QED BY <1>1, <1>2, <2>3, <2>6, <2>7, <2>8, OneMoves
<1> QED BY <1>4, <1>5

LEMMA NoPlanKeeps == ASSUME FetchInv, NEW f \in Fetchers, NoPlan(f) PROVE Keeps
<1>1. Ends(f, "refused") /\ UNCHANGED <<files, docker, stopping, shared>>
  BY DEF NoPlan
<1>2. DockerTypes' /\ "refused" \in EndSet /\ UNCHANGED <<files, shared>>
  BY <1>1 DEF FetchInv, DockerTypes, docker, EndSet
<1> QED BY <1>1, <1>2, EndKeeps

LEMMA PrepareKeeps == ASSUME FetchInv, NEW f \in Fetchers, Prepare(f) PROVE Keeps
<1> DEFINE l == NextLayer(f)
           D == IF part[l] = None THEN {} ELSE marks[l]
           G == fetch'[f]
<1>1. fetch[f].at = "prepare" /\ fetch[f].prep # {} /\ UNCHANGED <<docker, stopping, shared>>
  BY DEF Prepare
<1>2. l \in fetch[f].prep /\ l \in Layers
  BY <1>1, CallIs, NextLayerIs
<1>3. DockerTypes' /\ Busy(f) /\ fetch[f].flight = {} /\ fetch[f].plan # {}
  BY <1>1, CallIs DEF FetchInv, DockerTypes, docker, Busy, CallTypes
<1>4. CASE blob[l] # None
  <2>1. fetch' = [fetch EXCEPT ![f] = [fetch[f] EXCEPT !.prep = @ \ {l}]] /\ UNCHANGED files
    BY <1>4 DEF Prepare, Goes
  <2>2. G = [fetch[f] EXCEPT !.prep = fetch[f].prep \ {l}] /\ fetch' = [fetch EXCEPT ![f] = fetch'[f]]
    BY <2>1, CallIs
  <2> HIDE DEF l, G
  <2>3. /\ G.at = "prepare" /\ G.prep = fetch[f].prep \ {l} /\ G.plan = fetch[f].plan /\ G.wants = fetch[f].wants
        /\ G.todo = fetch[f].todo /\ G.flight = fetch[f].flight /\ G.live = fetch[f].live
        /\ G.wide = fetch[f].wide /\ G.done = fetch[f].done /\ G.end = fetch[f].end
    BY <1>1, <2>2, CallIs DEF Calls
  <2>4. CallTypes(f)'
    <3>1. G \in Calls
      BY <2>2, CallIs DEF Calls
    <3> QED BY <1>1, <2>3, <3>1, CallIs DEF CallTypes, G
  <2>5. ~shared => There(f)'
    BY <1>1, <1>4, <2>1, <2>3, CallIs DEF CallInv, There, Cached, files, G
  <2> QED BY <1>1, <1>3, <2>1, <2>2, <2>3, <2>4, <2>5, QuietKeeps DEF G
<1>5. CASE blob[l] = None
  <2>1. /\ fetch' = [fetch EXCEPT ![f] = [fetch[f] EXCEPT !.prep = @ \ {l}, !.done[l] = D,
                                            !.todo = @ \cup ({l} \X (Ranges(l) \ D))]]
        /\ part' = (IF part[l] = None THEN [part EXCEPT ![l] = [r \in Ranges(l) |-> "hole"]] ELSE part)
        /\ marks' = (IF part[l] = None THEN [marks EXCEPT ![l] = {}] ELSE marks)
        /\ blob' = blob
    BY <1>5 DEF Prepare, Goes
  <2>2. /\ G = [fetch[f] EXCEPT !.prep = fetch[f].prep \ {l}, !.done = [fetch[f].done EXCEPT ![l] = D],
                                !.todo = fetch[f].todo \cup ({l} \X (Ranges(l) \ D))]
        /\ fetch' = [fetch EXCEPT ![f] = fetch'[f]]
    BY <2>1, CallIs
  <2> DEFINE New == {l} \X (Ranges(l) \ D)
  <2>3. New \subseteq Pairs /\ \A x \in New : x[1] = l /\ x[2] \notin D /\ x[2] \in Ranges(l)
    BY <1>2, RangesAre DEF Pairs
  <2>4. DOMAIN part = Layers /\ DOMAIN marks = Layers
        /\ marks[l] \subseteq Ranges(l) /\ D \subseteq Ranges(l) /\ D \subseteq Nat
    BY <1>2, RangesAre DEF FetchInv, FileTypes
  <2>5. /\ part'[l] \in File(l) /\ part'[l] # None /\ marks'[l] = D
        /\ \A m \in Layers : m # l => part'[m] = part[m] /\ marks'[m] = marks[m]
        /\ DOMAIN part' = Layers /\ DOMAIN marks' = Layers
    <3>1. CASE part[l] = None
      <4>1. part'[l] = [r \in Ranges(l) |-> "hole"] /\ marks'[l] = {}
        BY <1>2, <2>1, <2>4, <3>1
      <4>2. part'[l] \in File(l)
        BY <4>1 DEF File
      <4> QED BY <1>2, <2>1, <2>4, <3>1, <4>1, <4>2, FilesAre
    <3>2. CASE part[l] # None
      BY <1>2, <2>1, <2>4, <3>2 DEF FetchInv, FileTypes
    <3> QED BY <3>1, <3>2
  <2>6. ~shared => \A r \in D : part'[l][r] # "hole"
    BY <1>2, <2>1 DEF FetchInv, CacheInv, Cache
  <2> HIDE DEF l, D, G, New
  <2>7. /\ G.at = "prepare" /\ G.prep = fetch[f].prep \ {l} /\ G.plan = fetch[f].plan /\ G.wants = fetch[f].wants
        /\ G.todo = fetch[f].todo \cup New /\ G.flight = {} /\ G.live = fetch[f].live
        /\ G.wide = fetch[f].wide /\ G.done = [fetch[f].done EXCEPT ![l] = D] /\ G.end = fetch[f].end
    BY <1>1, <1>3, <2>2, CallIs DEF Calls, New
  <2>8. G.done[l] = D /\ \A m \in Layers : m # l => G.done[m] = fetch[f].done[m]
    BY <1>2, <2>7, CallIs DEF Calls
  <2>9. CallTypes(f)'
    <3>1. G \in Calls
      <4>1. G = [fetch[f] EXCEPT !.prep = fetch[f].prep \ {l}, !.done = [fetch[f].done EXCEPT ![l] = D],
                                 !.todo = fetch[f].todo \cup New]
        BY <2>2 DEF New
      <4>2. /\ [fetch[f].done EXCEPT ![l] = D] \in [Layers -> SUBSET Nat]
            /\ fetch[f].todo \cup New \in SUBSET Pairs /\ fetch[f].prep \ {l} \in SUBSET Layers
        BY <2>3, <2>4, CallIs DEF Calls
      <4> QED BY <4>1, <4>2, CallIs DEF Calls
    <3>2. /\ fetch[f].plan \subseteq Range(Images[f]) /\ (\A m \in Layers : fetch[f].done[m] \subseteq Ranges(m))
          /\ fetch[f].live <= (IF fetch[f].wide THEN Wide ELSE Narrow)
          /\ IsFiniteSet({}) /\ Cardinality({}) <= fetch[f].live
      BY <1>3, CallIs DEF CallTypes
    <3>3. \A m \in Layers : G.done[m] \subseteq Ranges(m)
      BY <2>4, <2>8, <3>2
    <3> QED BY <1>3, <2>7, <3>1, <3>2, <3>3 DEF CallTypes, G
  <2>10. FileTypes'
    BY <2>1, <2>4, <2>5 DEF FetchInv, FileTypes
  <2>11. ASSUME ~shared PROVE Cache' /\ CallInv(f)'
    <3>1. Cache /\ CallInv(f) /\ \A x \in fetch[f].todo : x \in Pairs /\ x[1] \in Layers
      BY <2>11, CallIs DEF FetchInv, CacheInv, Pairs
    <3>2. Cache'
      BY <2>1, <2>5, <2>6, <2>11, <3>1 DEF Cache, Whole
    <3>3. /\ \A x \in fetch[f].todo : x[1] # l /\ x[2] \notin fetch[f].done[x[1]]
                                       /\ (part[x[1]] # None => x[2] \notin marks[x[1]])
          /\ \A m \in fetch[f].wants \ fetch[f].prep : Cached(m)
          /\ fetch[f].prep \subseteq fetch[f].wants
      BY <1>1, <1>2, <3>1 DEF CallInv, RestOpen, Rest, There
    <3>4. Rest(f)' = G.todo
      BY <2>7 DEF Rest, G
    <3>5. RestOpen(f)'
      <4>1. \A x \in G.todo : x[2] \notin G.done[x[1]] /\ (part'[x[1]] # None => x[2] \notin marks'[x[1]])
        BY <2>3, <2>5, <2>7, <2>8, <3>1, <3>3
      <4> QED BY <3>4, <4>1 DEF RestOpen, G
    <3>6. Apart(f)' /\ Unbroken(f)'
      BY <2>7, <3>1 DEF Apart, Unbroken, CallInv, G
    <3>7. Landed(f)'
      <4>1. \A m \in Layers : part'[m] # None => \A r \in G.done[m] : part'[m][r] # "hole"
        BY <2>5, <2>6, <2>8, <2>11, <3>1 DEF CallInv, Landed
      <4> QED BY <2>7, <4>1 DEF Landed, G
    <3>8. There(f)'
      <4>1. \A x \in G.todo : x[1] \notin G.prep
        BY <1>1, <2>3, <2>7, <3>1 DEF CallInv, There
      <4>2. \A m \in fetch[f].wants : Cached(m)' \/ m \in G.prep
        BY <2>1, <2>5, <2>7, <3>3, CallIs DEF Cached
      <4> QED BY <2>7, <3>3, <4>1, <4>2 DEF There, G
    <3> QED BY <3>2, <3>5, <3>6, <3>7, <3>8 DEF CallInv
  <2>12. Busy(f)' /\ TakesTheRest(f)
    BY <1>3, <2>7 DEF Busy, TakesTheRest, G
  <2> QED BY <1>1, <1>3, <2>2, <2>9, <2>10, <2>11, <2>12, OneMoves
<1> QED BY <1>4, <1>5

LEMMA TakeKeeps == ASSUME FetchInv, NEW f \in Fetchers, Take(f) PROVE Keeps
<1> DEFINE x == FirstRange(fetch[f].todo)
           t == [range |-> x, try |-> 1, got |-> FALSE]
           G == fetch'[f]
<1>1. /\ fetch[f].at = "threads" /\ fetch[f].todo # {}
      /\ Cardinality(fetch[f].flight) < fetch[f].live
      /\ fetch' = [fetch EXCEPT ![f] = [fetch[f] EXCEPT !.todo = @ \ {x}, !.flight = @ \cup {t}]]
      /\ UNCHANGED <<files, docker, stopping, shared>>
  BY DEF Take, Goes
<1>2. x \in fetch[f].todo /\ x \in Pairs
  BY <1>1, CallIs, FirstRangeIs
<1>3. /\ G = [fetch[f] EXCEPT !.todo = fetch[f].todo \ {x}, !.flight = fetch[f].flight \cup {t}]
      /\ fetch' = [fetch EXCEPT ![f] = fetch'[f]]
  BY <1>1, CallIs
<1>4. t \in Flights /\ t.range = x /\ t.got = FALSE
  BY <1>2 DEF Flights
<1> HIDE DEF x, t, G
<1>5. /\ G.at = "threads" /\ G.prep = fetch[f].prep /\ G.plan = fetch[f].plan /\ G.wants = fetch[f].wants
      /\ G.todo = fetch[f].todo \ {x} /\ G.flight = fetch[f].flight \cup {t} /\ G.live = fetch[f].live
      /\ G.wide = fetch[f].wide /\ G.done = fetch[f].done /\ G.end = fetch[f].end
  BY <1>1, <1>3, CallIs DEF Calls
<1>6. CallTypes(f)'
  <2>1. G \in Calls
    BY <1>3, <1>4, CallIs DEF Calls
  <2>2. /\ fetch[f].live \in Nat /\ IsFiniteSet(fetch[f].flight)
        /\ Cardinality(fetch[f].flight) \in Nat /\ Cardinality(fetch[f].flight) < fetch[f].live
    BY <1>1, CallIs, FS_CardinalityType DEF CallTypes, Calls
  <2>3. IsFiniteSet(G.flight) /\ Cardinality(G.flight) <= fetch[f].live
    <3> DEFINE W == fetch[f].flight
    <3>1. IsFiniteSet(W \cup {t}) /\ Cardinality(W \cup {t}) \in {Cardinality(W), Cardinality(W) + 1}
      BY <2>2, FS_AddElement
    <3> QED BY <1>5, <2>2, <3>1
  <2> QED BY <1>1, <1>5, <2>1, <2>3, CallIs DEF CallTypes, G
<1>7. FileTypes' /\ DockerTypes' /\ (~shared => Cache') /\ Busy(f) /\ Busy(f)'
  BY <1>1, <1>5 DEF FetchInv, DockerTypes, docker, CacheInv, FileTypes, Cache, files, Busy, G
<1>8. ASSUME ~shared PROVE CallInv(f)'
  <2>1. CallInv(f)
    BY <1>8, CallIs
  <2>2. \A u \in fetch[f].flight : u.range # x
    BY <1>2, <2>1 DEF CallInv, Apart
  <2>3. Rest(f)' = Rest(f)
    BY <1>2, <1>4, <1>5 DEF Rest, G
  <2>4. RestOpen(f)'
    BY <1>1, <1>5, <2>1, <2>3 DEF CallInv, RestOpen, files, G
  <2>5. Apart(f)'
    BY <1>4, <1>5, <2>1, <2>2 DEF CallInv, Apart, G
  <2>6. Landed(f)'
    BY <1>1, <1>4, <1>5, <2>1 DEF CallInv, Landed, files, G
  <2>7. There(f)' /\ Unbroken(f)'
    BY <1>1, <1>5, <2>1 DEF CallInv, There, Unbroken, Cached, files, G
  <2> QED BY <2>4, <2>5, <2>6, <2>7 DEF CallInv
<1>9. TakesTheRest(f)
  <2>1. ~shared /\ part[x[1]] # None => x[2] \notin marks[x[1]]
    BY <1>2, CallIs DEF CallInv, RestOpen, Rest
  <2> QED BY <1>4, <1>5, <2>1 DEF TakesTheRest, G
<1> QED BY <1>1, <1>3, <1>6, <1>7, <1>8, <1>9, OneMoves

\* A thread's attempt comes to something else: it tries again, or it has its bytes.
LEMMA BecomesIs ==
  ASSUME FetchInv, NEW f \in Fetchers, NEW t \in fetch[f].flight, NEW u \in Flights,
         u.range = t.range, Becomes(f, t, u)
  PROVE  /\ fetch' = [fetch EXCEPT ![f] = fetch'[f]] /\ CallTypes(f)'
         /\ Busy(f) /\ Busy(f)' /\ fetch[f].at = "threads" /\ fetch'[f].at = "threads"
         /\ fetch'[f].wants = fetch[f].wants
         /\ fetch'[f].todo = fetch[f].todo /\ fetch'[f].flight = (fetch[f].flight \ {t}) \cup {u}
         /\ fetch'[f].done = fetch[f].done /\ fetch'[f].end = fetch[f].end
         /\ Rest(f)' = Rest(f) /\ (Apart(f) => Apart(f)')
<1> DEFINE G == fetch'[f]
<1>1. fetch[f].at = "threads"
  BY CallIs DEF CallTypes
<1>2. fetch' = [fetch EXCEPT ![f] = [fetch[f] EXCEPT !.flight = (@ \ {t}) \cup {u}]]
  BY DEF Becomes, Goes
<1>3. /\ G = [fetch[f] EXCEPT !.flight = (fetch[f].flight \ {t}) \cup {u}]
      /\ fetch' = [fetch EXCEPT ![f] = fetch'[f]]
  BY <1>2, CallIs
<1> HIDE DEF G
<1>4. /\ G.at = "threads" /\ G.plan = fetch[f].plan /\ G.wants = fetch[f].wants
      /\ G.todo = fetch[f].todo /\ G.flight = (fetch[f].flight \ {t}) \cup {u} /\ G.live = fetch[f].live
      /\ G.wide = fetch[f].wide /\ G.done = fetch[f].done /\ G.end = fetch[f].end
  BY <1>1, <1>3, CallIs DEF Calls
<1>5. CallTypes(f)'
  <2>1. G \in Calls
    BY <1>3, CallIs DEF Calls
  <2>2. /\ fetch[f].live \in Nat /\ IsFiniteSet(fetch[f].flight)
        /\ Cardinality(fetch[f].flight) \in Nat /\ Cardinality(fetch[f].flight) <= fetch[f].live
    BY CallIs, FS_CardinalityType DEF CallTypes, Calls
  <2>3. /\ IsFiniteSet(fetch[f].flight \ {t})
        /\ Cardinality(fetch[f].flight \ {t}) = Cardinality(fetch[f].flight) - 1
    BY <2>2, FS_RemoveElement
  <2>4. IsFiniteSet(G.flight) /\ Cardinality(G.flight) <= fetch[f].live
    <3> DEFINE W == fetch[f].flight \ {t}
    <3>1. IsFiniteSet(W \cup {u}) /\ Cardinality(W \cup {u}) \in {Cardinality(W), Cardinality(W) + 1}
      BY <2>3, FS_AddElement
    <3> QED BY <1>4, <2>2, <2>3, <3>1
  <2> QED BY <1>1, <1>4, <2>1, <2>4, CallIs DEF CallTypes, G
<1>6. Rest(f)' = Rest(f)
  BY <1>4 DEF Rest, G
<1>7. Apart(f) => Apart(f)'
  BY <1>4 DEF Apart, G
<1> QED BY <1>1, <1>3, <1>4, <1>5, <1>6, <1>7 DEF Busy, G

LEMMA ReceiveKeeps == ASSUME FetchInv, NEW f \in Fetchers, NEW t \in fetch[f].flight, Receive(f, t) PROVE Keeps
<1> DEFINE l == t.range[1]  u == [t EXCEPT !.got = TRUE]  r == t.range[2]
<1>1. t \in Flights /\ t.range \in Pairs /\ l \in Layers /\ r \in Ranges(l) /\ t.got \in BOOLEAN /\ t.try \in Nat
  BY CallIs DEF Calls, Flights, Pairs
<1>2. u \in Flights /\ u.range = t.range
  BY <1>1 DEF Flights
<1>3. /\ part[l] # None /\ Becomes(f, t, u) /\ UNCHANGED <<blob, marks, docker, stopping, shared>>
      /\ \E b \in {"right", "wrong"} : part' = [part EXCEPT ![l][r] = b]
  BY DEF Receive
<1>4. PICK b \in {"right", "wrong"} : part' = [part EXCEPT ![l] = [part[l] EXCEPT ![r] = b]]
  BY <1>3
<1>5. DOMAIN part = Layers /\ part[l] \in File(l)
  BY <1>1, <1>3 DEF FetchInv, FileTypes
<1>6. /\ DOMAIN part' = Layers /\ part'[l] = [part[l] EXCEPT ![r] = b]
      /\ \A m \in Layers : m # l => part'[m] = part[m]
  BY <1>1, <1>4, <1>5
<1>7. /\ part'[l] \in File(l) /\ part'[l][r] = b /\ \A n \in Ranges(l) : n # r => part'[l][n] = part[l][n]
      /\ part'[l] # None
  <2>1. part'[l] \in File(l) /\ part'[l][r] = b /\ \A n \in Ranges(l) : n # r => part'[l][n] = part[l][n]
    BY <1>1, <1>5, <1>6 DEF File
  <2> QED BY <1>1, <2>1, FilesAre
<1>8. FileTypes' /\ DockerTypes'
  BY <1>3, <1>6, <1>7 DEF FetchInv, DockerTypes, docker, FileTypes
<1> DEFINE G == fetch'[f]
<1>9. /\ fetch' = [fetch EXCEPT ![f] = fetch'[f]] /\ CallTypes(f)'
      /\ Busy(f) /\ Busy(f)' /\ fetch[f].at = "threads" /\ G.at = "threads"
      /\ G.wants = fetch[f].wants /\ G.flight = (fetch[f].flight \ {t}) \cup {u}
      /\ G.done = fetch[f].done /\ G.end = fetch[f].end
      /\ Rest(f)' = Rest(f) /\ (Apart(f) => Apart(f)')
  BY <1>2, <1>3, BecomesIs
<1>10. \A m \in Layers : (part'[m] # None) = (part[m] # None)
  BY <1>3, <1>6, <1>7
<1>11. \A m \in Layers, n \in Nat : n \in Ranges(m) /\ part[m] # None /\ part[m][n] # "hole" => part'[m][n] # "hole"
  BY <1>6, <1>7
<1> HIDE DEF l, r, u, G
<1>12. ASSUME ~shared PROVE Cache' /\ CallInv(f)'
  <2>1. Cache /\ CallInv(f) /\ \A m \in Layers : fetch[f].done[m] \subseteq Ranges(m) /\ marks[m] \subseteq Ranges(m)
    BY <1>12, CallIs DEF FetchInv, CacheInv, CallTypes, FileTypes
  <2>2. Cache'
    BY <1>3, <1>10, <1>11, <2>1, RangesAre DEF Cache
  <2>3. RestOpen(f)'
    <3>1. \A x \in Rest(f) : x[1] \in Layers
      BY CallIs DEF Rest, Calls, Flights, Pairs
    <3> QED BY <1>3, <1>9, <1>10, <2>1, <3>1 DEF CallInv, RestOpen, G
  <2>4. Landed(f)'
    <3>1. \A m \in Layers : part'[m] # None => \A n \in G.done[m] : part'[m][n] # "hole"
      BY <1>9, <1>10, <1>11, <2>1, RangesAre DEF CallInv, Landed
    <3>2. ASSUME NEW v \in fetch[f].flight, v.got, part[v.range[1]] # None
          PROVE  part'[v.range[1]][v.range[2]] # "hole"
      <4>1. v.range[1] \in Layers /\ v.range[2] \in Nat /\ v.range[2] \in Ranges(v.range[1])
        BY CallIs DEF Calls, Flights, Pairs
      <4>2. part[v.range[1]][v.range[2]] # "hole"
        BY <2>1, <3>2 DEF CallInv, Landed
      <4> QED BY <1>11, <3>2, <4>1, <4>2
    <3>3. part'[u.range[1]][u.range[2]] # "hole"
      BY <1>2, <1>7 DEF l, r
    <3>4. \A v \in fetch[f].flight : v.range[1] \in Layers
      BY CallIs DEF Calls, Flights, Pairs
    <3> QED BY <1>9, <1>10, <3>1, <3>2, <3>3, <3>4 DEF Landed, G
  <2>5. There(f)' /\ Unbroken(f)'
    <3>1. \A m \in fetch[f].wants : Cached(m) /\ m \in Layers
      BY <1>9, <2>1, CallIs DEF CallInv, There
    <3>2. \A m \in fetch[f].wants : Cached(m)'
      BY <1>3, <1>10, <3>1 DEF Cached
    <3> QED BY <1>9, <2>1, <3>2 DEF CallInv, There, Unbroken, G
  <2> QED BY <1>9, <2>1, <2>2, <2>3, <2>4, <2>5 DEF CallInv
<1>13. TakesTheRest(f)
  <2>1. u.got
    BY <1>1 DEF u, Flights
  <2> QED BY <1>9, <2>1 DEF TakesTheRest, G
<1> QED BY <1>3, <1>8, <1>9, <1>12, <1>13, OneMoves

LEMMA DockerKeeps == ASSUME FetchInv, UNCHANGED <<docker, stopping>> PROVE DockerTypes'
BY DEF FetchInv, DockerTypes, docker

LEMMA FilesKeep == ASSUME FetchInv, UNCHANGED files PROVE FileTypes' /\ (~shared => Cache')
BY DEF FetchInv, CacheInv, FileTypes, Cache, files

LEMMA FailKeeps ==
  ASSUME FetchInv, NEW f \in Fetchers, NEW t \in fetch[f].flight, NEW error \in Errors, Fails(f, t, error),
         UNCHANGED <<files, docker, stopping, shared>>
  PROVE  Keeps
<1> DEFINE G == fetch'[f]
<1>1. fetch[f].at = "threads"
  BY CallIs DEF CallTypes
<1>2. /\ G = [fetch[f] EXCEPT !.flight = fetch[f].flight \ {t}, !.live = fetch[f].live - 1,
                              !.error = IF fetch[f].error = "none" THEN error ELSE fetch[f].error]
      /\ fetch' = [fetch EXCEPT ![f] = fetch'[f]]
  BY CallIs DEF Fails, Goes
<1> HIDE DEF G
<1>3. /\ G.at = "threads" /\ G.plan = fetch[f].plan /\ G.wants = fetch[f].wants
      /\ G.todo = fetch[f].todo /\ G.flight = fetch[f].flight \ {t} /\ G.live = fetch[f].live - 1
      /\ G.wide = fetch[f].wide /\ G.done = fetch[f].done /\ G.end = fetch[f].end
  BY <1>1, <1>2, CallIs DEF Calls
<1>4. /\ fetch[f].live \in Nat /\ IsFiniteSet(fetch[f].flight)
      /\ Cardinality(fetch[f].flight) \in Nat /\ Cardinality(fetch[f].flight) <= fetch[f].live
      /\ fetch[f].live <= (IF fetch[f].wide THEN Wide ELSE Narrow)
  BY CallIs, FS_CardinalityType DEF CallTypes, Calls
<1>5. /\ IsFiniteSet(fetch[f].flight \ {t}) /\ Cardinality(fetch[f].flight \ {t}) \in Nat
      /\ Cardinality(fetch[f].flight \ {t}) = Cardinality(fetch[f].flight) - 1
  BY <1>4, FS_RemoveElement, FS_CardinalityType
<1>6. /\ fetch[f].live - 1 \in Nat /\ Cardinality(fetch[f].flight \ {t}) <= fetch[f].live - 1
      /\ fetch[f].live - 1 <= (IF fetch[f].wide THEN Wide ELSE Narrow)
  <2>1. Wide \in Nat /\ Narrow \in Nat
    BY FetchAssumption
  <2> QED BY <1>4, <1>5, <2>1
<1>7. CallTypes(f)'
  <2>1. G \in Calls
    BY <1>2, <1>6, CallIs DEF Calls
  <2> QED BY <1>1, <1>3, <1>5, <1>6, <2>1, CallIs DEF CallTypes, G
<1>8. ASSUME ~shared PROVE CallInv(f)'
  <2>1. CallInv(f)
    BY <1>8, CallIs
  <2>2. RestOpen(f)'
    BY <1>3, <2>1 DEF CallInv, RestOpen, Rest, files, G
  <2>3. Apart(f)'
    BY <1>3, <2>1 DEF CallInv, Apart, G
  <2>4. Landed(f)'
    BY <1>3, <2>1 DEF CallInv, Landed, files, G
  <2>5. There(f)' /\ Unbroken(f)'
    BY <1>1, <1>3, <2>1 DEF CallInv, There, Unbroken, Cached, files, G
  <2> QED BY <2>2, <2>3, <2>4, <2>5 DEF CallInv
<1>9. TakesTheRest(f)
  BY <1>3 DEF TakesTheRest, G
<1> QED BY <1>1, <1>2, <1>3, <1>7, <1>8, <1>9, DockerKeeps, FilesKeep, OneMoves DEF Busy, G

LEMMA RetryKeeps == ASSUME FetchInv, NEW f \in Fetchers, NEW t \in fetch[f].flight, Retry(f, t) PROVE Keeps
<1>1. ~t.got /\ UNCHANGED <<files, docker, stopping, shared>>
  BY DEF Retry
<1>2. CASE Becomes(f, t, [t EXCEPT !.try = @ + 1])
  <2> DEFINE u == [t EXCEPT !.try = @ + 1]  G == fetch'[f]
  <2>1. t \in Flights
    BY CallIs DEF Calls
  <2>2. u \in Flights /\ u.range = t.range /\ ~u.got
    BY <1>1, <2>1 DEF Flights
  <2>3. Becomes(f, t, u)
    BY <1>2
  <2> HIDE DEF u
  <2>4. /\ fetch' = [fetch EXCEPT ![f] = fetch'[f]] /\ CallTypes(f)'
        /\ Busy(f) /\ Busy(f)' /\ fetch[f].at = "threads" /\ G.at = "threads"
        /\ G.wants = fetch[f].wants /\ G.flight = (fetch[f].flight \ {t}) \cup {u}
        /\ G.done = fetch[f].done /\ G.end = fetch[f].end
        /\ Rest(f)' = Rest(f) /\ (Apart(f) => Apart(f)')
    BY <2>2, <2>3, BecomesIs
  <2> HIDE DEF G
  <2>5. ASSUME ~shared PROVE CallInv(f)'
    <3>1. CallInv(f)
      BY <2>5, CallIs
    <3>2. RestOpen(f)' /\ Landed(f)'
      BY <1>1, <2>2, <2>4, <3>1 DEF CallInv, RestOpen, Landed, files, G
    <3>3. There(f)' /\ Unbroken(f)'
      BY <1>1, <2>4, <3>1 DEF CallInv, There, Unbroken, Cached, files, G
    <3> QED BY <2>4, <3>1, <3>2, <3>3 DEF CallInv
  <2>6. TakesTheRest(f)
    <3>1. ~shared /\ part[t.range[1]] # None => t.range[2] \notin marks[t.range[1]]
      BY CallIs DEF CallInv, RestOpen, Rest
    <3> QED BY <2>2, <2>4, <3>1 DEF TakesTheRest, G
  <2> QED BY <1>1, <2>4, <2>5, <2>6, DockerKeeps, FilesKeep, OneMoves
<1>3. CASE Fails(f, t, "refused")
  BY <1>1, <1>3, FailKeeps DEF Errors
<1> QED BY <1>2, <1>3 DEF Retry

LEMMA NoRangesKeeps == ASSUME FetchInv, NEW f \in Fetchers, NEW t \in fetch[f].flight, NoRanges(f, t) PROVE Keeps
BY FailKeeps DEF NoRanges, Errors

LEMMA StoppedKeeps == ASSUME FetchInv, NEW f \in Fetchers, NEW t \in fetch[f].flight, Stopped(f, t) PROVE Keeps
BY FailKeeps DEF Stopped, Errors

LEMMA MarkKeeps == ASSUME FetchInv, NEW f \in Fetchers, NEW t \in fetch[f].flight, Mark(f, t) PROVE Keeps
<1> DEFINE l == t.range[1]  r == t.range[2]  D == fetch[f].done[l] \cup {r}  G == fetch'[f]
<1>1. t \in Flights /\ t.range \in Pairs /\ l \in Layers /\ r \in Ranges(l) /\ r \in Nat /\ t.range = <<l, r>>
  BY CallIs, RangesAre DEF Calls, Flights, Pairs
<1>2. /\ t.got /\ marks' = [marks EXCEPT ![l] = D]
      /\ fetch' = [fetch EXCEPT ![f] = [fetch[f] EXCEPT !.flight = @ \ {t}, !.done[l] = D]]
      /\ UNCHANGED <<blob, part, docker, stopping, shared>>
  BY DEF Mark, Goes
<1>3. /\ G = [fetch[f] EXCEPT !.flight = fetch[f].flight \ {t}, !.done = [fetch[f].done EXCEPT ![l] = D]]
      /\ fetch' = [fetch EXCEPT ![f] = fetch'[f]]
  BY <1>2, CallIs
<1>4. fetch[f].at = "threads" /\ D \subseteq Ranges(l) /\ D \subseteq Nat
  BY <1>1, CallIs, RangesAre DEF CallTypes
<1>5. marks'[l] = D /\ DOMAIN marks' = Layers /\ \A m \in Layers : m # l => marks'[m] = marks[m]
  BY <1>1, <1>2 DEF FetchInv, FileTypes
<1> HIDE DEF l, r, D, G
<1>6. /\ G.at = "threads" /\ G.plan = fetch[f].plan /\ G.wants = fetch[f].wants
      /\ G.todo = fetch[f].todo /\ G.flight = fetch[f].flight \ {t} /\ G.live = fetch[f].live
      /\ G.wide = fetch[f].wide /\ G.done = [fetch[f].done EXCEPT ![l] = D] /\ G.end = fetch[f].end
  BY <1>3, <1>4, CallIs DEF Calls
<1>7. G.done[l] = D /\ \A m \in Layers : m # l => G.done[m] = fetch[f].done[m]
  BY <1>1, <1>6, CallIs DEF Calls
<1>8. CallTypes(f)'
  <2>1. G \in Calls
    <3>1. [fetch[f].done EXCEPT ![l] = D] \in [Layers -> SUBSET Nat] /\ fetch[f].flight \ {t} \in SUBSET Flights
      BY <1>4, CallIs DEF Calls
    <3> QED BY <1>3, <3>1, CallIs DEF Calls
  <2>2. \A m \in Layers : G.done[m] \subseteq Ranges(m)
    BY <1>4, <1>7, CallIs DEF CallTypes
  <2>3. IsFiniteSet(G.flight) /\ Cardinality(G.flight) <= fetch[f].live
    <3>1. /\ fetch[f].live \in Nat /\ IsFiniteSet(fetch[f].flight)
          /\ Cardinality(fetch[f].flight) \in Nat /\ Cardinality(fetch[f].flight) <= fetch[f].live
      BY CallIs, FS_CardinalityType DEF CallTypes, Calls
    <3>2. /\ IsFiniteSet(fetch[f].flight \ {t})
          /\ Cardinality(fetch[f].flight \ {t}) = Cardinality(fetch[f].flight) - 1
      BY <3>1, FS_RemoveElement
    <3> QED BY <1>6, <3>1, <3>2
  <2> QED BY <1>4, <1>6, <2>1, <2>2, <2>3, CallIs DEF CallTypes, G
<1>9. FileTypes'
  BY <1>2, <1>4, <1>5 DEF FetchInv, FileTypes
<1>10. ASSUME ~shared PROVE Cache' /\ CallInv(f)'
  <2>1. Cache /\ CallInv(f)
    BY <1>10, CallIs DEF FetchInv, CacheInv
  <2>2. part[l] # None => \A n \in D : part[l][n] # "hole"
    BY <1>1, <1>2, <2>1 DEF CallInv, Landed, l, r, D
  <2>3. Cache'
    BY <1>2, <1>5, <2>1, <2>2 DEF Cache, Whole
  <2>4. \A x \in Rest(f)' : x \in Rest(f) /\ x # t.range /\ x \in Pairs
    <3>1. \A u \in fetch[f].flight : u \in Flights /\ u.range \in Pairs
      BY CallIs DEF Calls, Flights
    <3> QED BY <1>6, <2>1, <3>1, CallIs DEF CallInv, Apart, Rest, G
  <2>5. RestOpen(f)'
    <3> SUFFICES ASSUME NEW x \in Rest(f)'
                 PROVE  x[2] \notin G.done[x[1]] /\ (part'[x[1]] # None => x[2] \notin marks'[x[1]])
      BY DEF RestOpen, G
    <3>1. x \in Rest(f) /\ x # t.range /\ x \in Pairs /\ x[1] \in Layers /\ x = <<x[1], x[2]>>
      BY <2>4 DEF Pairs
    <3>2. x[2] \notin fetch[f].done[x[1]] /\ (part[x[1]] # None => x[2] \notin marks[x[1]])
      BY <2>1, <3>1 DEF CallInv, RestOpen
    <3>3. CASE x[1] = l
      <4>1. x[2] # r
        BY <1>1, <3>1, <3>3
      <4>2. x[2] \notin D
        BY <3>2, <3>3, <4>1 DEF D
      <4> QED BY <1>5, <1>7, <3>3, <4>2
    <3>4. CASE x[1] # l
      BY <1>2, <1>5, <1>7, <3>1, <3>2, <3>4
    <3> QED BY <3>3, <3>4
  <2>6. Apart(f)'
    BY <1>6, <2>1 DEF CallInv, Apart, G
  <2>7. Landed(f)'
    <3>1. \A m \in Layers : part[m] # None => \A n \in G.done[m] : part[m][n] # "hole"
      BY <1>7, <2>1, <2>2 DEF CallInv, Landed
    <3> QED BY <1>2, <1>6, <2>1, <3>1 DEF CallInv, Landed, G
  <2>8. There(f)' /\ Unbroken(f)'
    BY <1>2, <1>4, <1>6, <2>1 DEF CallInv, There, Unbroken, Cached, G
  <2> QED BY <2>3, <2>5, <2>6, <2>7, <2>8 DEF CallInv
<1>11. DockerTypes' /\ Busy(f) /\ Busy(f)' /\ TakesTheRest(f)
  BY <1>2, <1>4, <1>6, DockerKeeps DEF Busy, TakesTheRest, G
<1> QED BY <1>2, <1>3, <1>8, <1>9, <1>10, <1>11, OneMoves

LEMMA JoinedKeeps == ASSUME FetchInv, NEW f \in Fetchers, Joined(f) PROVE Keeps
<1>1. /\ fetch[f].at = "threads" /\ fetch[f].flight = {} /\ (fetch[f].todo = {} \/ fetch[f].error # "none")
      /\ UNCHANGED <<files, docker, stopping, shared>>
  BY DEF Joined
<1>2. CASE fetch[f].error # "none"
  <2>1. Ends(f, fetch[f].error) /\ fetch[f].error \in EndSet /\ fetch[f].error # "broke"
    BY <1>2, CallIs DEF Joined, Calls, Errors, EndSet
  <2> QED BY <1>1, <2>1, EndKeeps, DockerKeeps
<1>3. CASE fetch[f].error = "none"
  <2> DEFINE G == fetch'[f]
  <2>1. /\ G = [fetch[f] EXCEPT !.at = "finish", !.live = 0, !.prep = fetch[f].wants]
        /\ fetch' = [fetch EXCEPT ![f] = fetch'[f]]
    BY <1>3, CallIs DEF Joined, Goes
  <2> HIDE DEF G
  <2>2. /\ G.at = "finish" /\ G.prep = fetch[f].wants /\ G.wants = fetch[f].wants /\ G.plan = fetch[f].plan
        /\ G.todo = fetch[f].todo /\ G.flight = fetch[f].flight /\ G.live = 0
        /\ G.wide = fetch[f].wide /\ G.done = fetch[f].done /\ G.end = fetch[f].end
    BY <2>1, CallIs DEF Calls
  <2>3. CallTypes(f)'
    <3>1. G \in Calls
      BY <2>1, CallIs DEF Calls, Stages
    <3>2. Wide \in Nat /\ Narrow \in Nat /\ IsFiniteSet({}) /\ Cardinality({}) = 0
      BY FetchAssumption, FS_EmptySet
    <3> QED BY <1>1, <1>3, <2>2, <3>1, <3>2, CallIs DEF CallTypes, G
  <2>4. ~shared => There(f)'
    BY <1>1, <2>2, CallIs DEF CallInv, There, Cached, files, G
  <2> QED BY <1>1, <2>1, <2>2, <2>3, <2>4, QuietKeeps, DockerKeeps DEF Busy, G
<1> QED BY <1>2, <1>3

LEMMA HashKeeps == ASSUME FetchInv, NEW f \in Fetchers, Hash(f) PROVE Keeps
<1> DEFINE l == NextLayer(f)  G == fetch'[f]
<1>1. /\ fetch[f].at = "finish" /\ fetch[f].prep # {} /\ UNCHANGED <<files, docker, stopping, shared>>
      /\ fetch[f].plan # {} /\ fetch[f].todo = {} /\ fetch[f].flight = {}
  BY CallIs DEF Hash, CallTypes
<1>2. l \in fetch[f].prep /\ l \in Layers
  BY <1>1, CallIs, NextLayerIs
<1>3. \/ blob[l] # None /\ Goes(f, [fetch[f] EXCEPT !.prep = @ \ {l}])
      \/ blob[l] = None /\ part[l] = None /\ Ends(f, "broke")
      \/ part[l] # None /\ Whole(part[l]) /\ Goes(f, [fetch[f] EXCEPT !.at = "rename"])
      \/ Goes(f, [fetch[f] EXCEPT !.at = "discard", !.prep = {l}, !.error = "refused"])
  BY DEF Hash, Whole
<1>4. CASE blob[l] # None /\ Goes(f, [fetch[f] EXCEPT !.prep = @ \ {l}])
  <2>1. G = [fetch[f] EXCEPT !.prep = fetch[f].prep \ {l}] /\ fetch' = [fetch EXCEPT ![f] = fetch'[f]]
    BY <1>4, CallIs DEF Goes
  <2> HIDE DEF G, l
  <2>2. /\ G.at = "finish" /\ G.prep = fetch[f].prep \ {l} /\ G.wants = fetch[f].wants /\ G.plan = fetch[f].plan
        /\ G.todo = fetch[f].todo /\ G.flight = fetch[f].flight /\ G.live = fetch[f].live
        /\ G.wide = fetch[f].wide /\ G.done = fetch[f].done /\ G.end = fetch[f].end
    BY <1>1, <2>1, CallIs DEF Calls
  <2>3. CallTypes(f)'
    <3>1. G \in Calls
      BY <2>1, CallIs DEF Calls
    <3> QED BY <1>1, <2>2, <3>1, CallIs DEF CallTypes, G
  <2>4. ~shared => There(f)'
    BY <1>1, <2>2, CallIs DEF CallInv, There, Cached, files, G
  <2> QED BY <1>1, <2>1, <2>2, <2>3, <2>4, QuietKeeps, DockerKeeps DEF Busy, G
<1>5. CASE blob[l] = None /\ part[l] = None /\ Ends(f, "broke")
  <2>1. shared
    BY <1>1, <1>2, <1>5, CallIs DEF CallInv, There, Cached
  <2> QED BY <1>1, <1>5, <2>1, EndKeeps, DockerKeeps DEF EndSet
<1>6. CASE part[l] # None /\ Whole(part[l]) /\ Goes(f, [fetch[f] EXCEPT !.at = "rename"])
  <2>1. G = [fetch[f] EXCEPT !.at = "rename"] /\ fetch' = [fetch EXCEPT ![f] = fetch'[f]]
    BY <1>6, CallIs DEF Goes
  <2> HIDE DEF G
  <2>2. /\ G.at = "rename" /\ G.prep = fetch[f].prep /\ G.wants = fetch[f].wants /\ G.plan = fetch[f].plan
        /\ G.todo = fetch[f].todo /\ G.flight = fetch[f].flight /\ G.live = fetch[f].live
        /\ G.wide = fetch[f].wide /\ G.done = fetch[f].done /\ G.end = fetch[f].end
    BY <1>1, <2>1, CallIs DEF Calls
  <2>3. CallTypes(f)'
    <3>1. G \in Calls
      BY <2>1, CallIs DEF Calls, Stages
    <3> QED BY <1>1, <2>2, <3>1, CallIs DEF CallTypes, G
  <2>4. NextLayer(f)' = l
    BY <2>2 DEF NextLayer, G
  <2>5. ~shared => There(f)'
    <3>1. part'[l] # None /\ Whole(part'[l])
      BY <1>1, <1>6 DEF files
    <3> HIDE DEF l
    <3> QED BY <1>1, <2>2, <2>4, <3>1, CallIs DEF CallInv, There, Cached, files, G
  <2> QED BY <1>1, <2>1, <2>2, <2>3, <2>5, QuietKeeps, DockerKeeps DEF Busy, G
<1>7. CASE Goes(f, [fetch[f] EXCEPT !.at = "discard", !.prep = {l}, !.error = "refused"])
  <2>1. /\ G = [fetch[f] EXCEPT !.at = "discard", !.prep = {l}, !.error = "refused"]
        /\ fetch' = [fetch EXCEPT ![f] = fetch'[f]]
    BY <1>7, CallIs DEF Goes
  <2> HIDE DEF G, l
  <2>2. /\ G.at = "discard" /\ G.wants = fetch[f].wants /\ G.plan = fetch[f].plan
        /\ G.todo = fetch[f].todo /\ G.flight = fetch[f].flight /\ G.live = fetch[f].live
        /\ G.wide = fetch[f].wide /\ G.done = fetch[f].done /\ G.end = fetch[f].end
    BY <1>1, <2>1, CallIs DEF Calls
  <2>3. CallTypes(f)'
    <3>1. G \in Calls
      <4>1. {l} \in SUBSET Layers /\ "discard" \in Stages /\ "refused" \in Errors
        BY <1>2 DEF Stages, Errors
      <4> QED BY <2>1, <4>1, CallIs DEF Calls
    <3> QED BY <1>1, <2>2, <3>1, CallIs DEF CallTypes, G
  <2>4. There(f)'
    BY <2>2 DEF There, G
  <2> QED BY <1>1, <2>1, <2>2, <2>3, <2>4, QuietKeeps, DockerKeeps DEF Busy, G
<1> QED BY <1>3, <1>4, <1>5, <1>6, <1>7

LEMMA RenameKeeps == ASSUME FetchInv, NEW f \in Fetchers, Rename(f) PROVE Keeps
<1> DEFINE l == NextLayer(f)  G == fetch'[f]
<1>1. /\ fetch[f].at = "rename" /\ fetch[f].prep # {} /\ UNCHANGED <<marks, docker, stopping, shared>>
      /\ fetch[f].plan # {} /\ fetch[f].todo = {} /\ fetch[f].flight = {}
  BY CallIs DEF Rename, CallTypes, files
<1>2. l \in fetch[f].prep /\ l \in Layers
  BY <1>1, CallIs, NextLayerIs
<1>3. CASE part[l] = None
  <2>1. Ends(f, "broke") /\ UNCHANGED files
    BY <1>3 DEF Rename
  <2>2. shared
    BY <1>1, <1>3, CallIs DEF CallInv, There
  <2> QED BY <1>1, <2>1, <2>2, EndKeeps, DockerKeeps DEF EndSet
<1>4. CASE part[l] # None
  <2>1. /\ blob' = [blob EXCEPT ![l] = part[l]] /\ part' = [part EXCEPT ![l] = None]
        /\ Goes(f, [fetch[f] EXCEPT !.at = "unlink"])
    BY <1>4 DEF Rename
  <2>2. G = [fetch[f] EXCEPT !.at = "unlink"] /\ fetch' = [fetch EXCEPT ![f] = fetch'[f]]
    BY <2>1, CallIs DEF Goes
  <2> HIDE DEF G
  <2>3. /\ G.at = "unlink" /\ G.prep = fetch[f].prep /\ G.wants = fetch[f].wants /\ G.plan = fetch[f].plan
        /\ G.todo = fetch[f].todo /\ G.flight = fetch[f].flight /\ G.live = fetch[f].live
        /\ G.wide = fetch[f].wide /\ G.done = fetch[f].done /\ G.end = fetch[f].end
    BY <1>1, <2>2, CallIs DEF Calls
  <2>4. CallTypes(f)'
    <3>1. G \in Calls
      BY <2>2, CallIs DEF Calls, Stages
    <3> QED BY <1>1, <2>3, <3>1, CallIs DEF CallTypes, G
  <2>5. NextLayer(f)' = l
    BY <2>3 DEF NextLayer, G
  <2> HIDE DEF l
  <2>6. /\ blob'[l] = part[l] /\ part'[l] = None /\ DOMAIN blob' = Layers /\ DOMAIN part' = Layers
        /\ \A m \in Layers : m # l => blob'[m] = blob[m] /\ part'[m] = part[m]
    BY <1>2, <2>1 DEF FetchInv, FileTypes
  <2>7. FileTypes'
    BY <1>1, <1>2, <1>4, <2>6 DEF FetchInv, FileTypes
  <2>8. ASSUME ~shared PROVE Cache' /\ CallInv(f)'
    <3>1. Cache /\ CallInv(f) /\ Whole(part[l])
      BY <1>1, <2>8, CallIs DEF FetchInv, CacheInv, CallInv, There, l
    <3>2. Cache'
      BY <1>1, <2>6, <3>1 DEF Cache, Whole
    <3>3. RestOpen(f)' /\ Apart(f)' /\ Unbroken(f)'
      BY <1>1, <2>3, <3>1 DEF CallInv, RestOpen, Rest, Apart, Unbroken, G
    <3>4. Landed(f)'
      BY <1>1, <2>3, <2>6, <3>1 DEF CallInv, Landed, G
    <3>5. There(f)'
      <4>1. \A m \in fetch[f].wants : Cached(m)'
        BY <1>1, <1>4, <2>6, <3>1, CallIs DEF CallInv, There, Cached
      <4> QED BY <1>1, <1>4, <2>3, <2>5, <2>6, <3>1, <4>1 DEF CallInv, There, G
    <3> QED BY <3>2, <3>3, <3>4, <3>5 DEF CallInv
  <2>9. DockerTypes' /\ Busy(f) /\ Busy(f)' /\ TakesTheRest(f)
    BY <1>1, <2>3, DockerKeeps DEF Busy, TakesTheRest, G
  <2> QED BY <1>1, <2>2, <2>4, <2>7, <2>8, <2>9, OneMoves
<1> QED BY <1>3, <1>4

LEMMA UnlinkKeeps == ASSUME FetchInv, NEW f \in Fetchers, Unlink(f) PROVE Keeps
<1> DEFINE l == NextLayer(f)  G == fetch'[f]
<1>1. /\ fetch[f].at = "unlink" /\ fetch[f].prep # {} /\ UNCHANGED <<blob, part, docker, stopping, shared>>
      /\ fetch[f].plan # {} /\ fetch[f].todo = {} /\ fetch[f].flight = {}
      /\ marks' = [marks EXCEPT ![l] = {}] /\ Goes(f, [fetch[f] EXCEPT !.at = "finish", !.prep = @ \ {l}])
  BY CallIs DEF Unlink, CallTypes
<1>2. l \in fetch[f].prep /\ l \in Layers
  BY <1>1, CallIs, NextLayerIs
<1>3. /\ G = [fetch[f] EXCEPT !.at = "finish", !.prep = fetch[f].prep \ {l}]
      /\ fetch' = [fetch EXCEPT ![f] = fetch'[f]]
  BY <1>1, CallIs DEF Goes
<1> HIDE DEF G, l
<1>4. /\ G.at = "finish" /\ G.prep = fetch[f].prep \ {l} /\ G.wants = fetch[f].wants /\ G.plan = fetch[f].plan
      /\ G.todo = fetch[f].todo /\ G.flight = fetch[f].flight /\ G.live = fetch[f].live
      /\ G.wide = fetch[f].wide /\ G.done = fetch[f].done /\ G.end = fetch[f].end
  BY <1>1, <1>3, CallIs DEF Calls
<1>5. CallTypes(f)'
  <2>1. G \in Calls
    BY <1>3, CallIs DEF Calls, Stages
  <2> QED BY <1>1, <1>4, <2>1, CallIs DEF CallTypes, G
<1>6. marks'[l] = {} /\ DOMAIN marks' = Layers /\ \A m \in Layers : m # l => marks'[m] = marks[m]
  BY <1>1, <1>2 DEF FetchInv, FileTypes
<1>7. FileTypes'
  BY <1>1, <1>6 DEF FetchInv, FileTypes
<1>8. ASSUME ~shared PROVE Cache' /\ CallInv(f)'
  <2>1. Cache /\ CallInv(f)
    BY <1>8, CallIs DEF FetchInv, CacheInv
  <2>2. Cache'
    BY <1>1, <1>6, <2>1 DEF Cache, Whole
  <2>3. RestOpen(f)' /\ Apart(f)' /\ Unbroken(f)'
    BY <1>1, <1>4, <2>1 DEF CallInv, RestOpen, Rest, Apart, Unbroken, G
  <2>4. Landed(f)' /\ There(f)'
    BY <1>1, <1>4, <2>1 DEF CallInv, Landed, There, Cached, G
  <2> QED BY <2>2, <2>3, <2>4 DEF CallInv
<1>9. DockerTypes' /\ Busy(f) /\ Busy(f)' /\ TakesTheRest(f)
  BY <1>1, <1>4, DockerKeeps DEF Busy, TakesTheRest, G
<1> QED BY <1>1, <1>3, <1>5, <1>7, <1>8, <1>9, OneMoves

LEMMA LoadKeeps == ASSUME FetchInv, NEW f \in Fetchers, Load(f) PROVE Keeps
<1> DEFINE image == NextImage(f)  left == fetch[f].plan \ {image}  G == fetch'[f]
<1>1. /\ fetch[f].at = "finish" /\ fetch[f].prep = {} /\ UNCHANGED <<files, stopping, shared>>
      /\ fetch[f].plan # {} /\ fetch[f].todo = {} /\ fetch[f].flight = {}
      /\ present' = present \cup {image} /\ held' = held \cup LayersOf[image]
  BY CallIs DEF Load, Loading, CallTypes
<1>2. image \in DOMAIN LayersOf /\ LayersOf[image] \subseteq Layers
  BY <1>1, NextImageIs, FetchAssumption DEF FetchInv
<1>3. DockerTypes' /\ Busy(f)
  BY <1>1, <1>2 DEF FetchInv, DockerTypes, Busy
<1>4. \/ left # {} /\ Goes(f, [fetch[f] EXCEPT !.plan = left])
      \/ Goes(f, [fetch[f] EXCEPT !.plan = left, !.at = "discard", !.prep = fetch[f].first])
  BY DEF Load
<1> HIDE DEF G, image
<1>5. CASE left # {} /\ Goes(f, [fetch[f] EXCEPT !.plan = left])
  <2>1. G = [fetch[f] EXCEPT !.plan = left] /\ fetch' = [fetch EXCEPT ![f] = fetch'[f]]
    BY <1>5, CallIs DEF Goes, G
  <2>2. /\ G.at = "finish" /\ G.prep = fetch[f].prep /\ G.wants = fetch[f].wants /\ G.plan = left
        /\ G.todo = fetch[f].todo /\ G.flight = fetch[f].flight /\ G.live = fetch[f].live
        /\ G.wide = fetch[f].wide /\ G.done = fetch[f].done /\ G.end = fetch[f].end
    BY <1>1, <2>1, CallIs DEF Calls
  <2>3. CallTypes(f)'
    <3>1. G \in Calls
      BY <2>1, CallIs DEF Calls
    <3> QED BY <1>1, <1>5, <2>2, <3>1, CallIs DEF CallTypes, G
  <2>4. ~shared => There(f)'
    BY <1>1, <2>2, CallIs DEF CallInv, There, Cached, files, G
  <2> QED BY <1>1, <1>3, <2>1, <2>2, <2>3, <2>4, QuietKeeps DEF G
<1>6. CASE Goes(f, [fetch[f] EXCEPT !.plan = left, !.at = "discard", !.prep = fetch[f].first])
  <2>1. /\ G = [fetch[f] EXCEPT !.plan = left, !.at = "discard", !.prep = fetch[f].first]
        /\ fetch' = [fetch EXCEPT ![f] = fetch'[f]]
    BY <1>6, CallIs DEF Goes, G
  <2>2. /\ G.at = "discard" /\ G.wants = fetch[f].wants /\ G.plan = left
        /\ G.todo = fetch[f].todo /\ G.flight = fetch[f].flight /\ G.live = fetch[f].live
        /\ G.wide = fetch[f].wide /\ G.done = fetch[f].done /\ G.end = fetch[f].end
    BY <1>1, <2>1, CallIs DEF Calls
  <2>3. CallTypes(f)'
    <3>1. G \in Calls
      BY <2>1, CallIs DEF Calls, Stages
    <3> QED BY <1>1, <2>2, <3>1, CallIs DEF CallTypes, G
  <2>4. There(f)'
    BY <2>2 DEF There, G
  <2> QED BY <1>1, <1>3, <2>1, <2>2, <2>3, <2>4, QuietKeeps DEF G
<1> QED BY <1>4, <1>5, <1>6

LEMMA LoadAgainKeeps == ASSUME FetchInv, NEW f \in Fetchers, LoadAgain(f) PROVE Keeps
<1> DEFINE image == NextImage(f)  extra == fetch[f].reused[image]  G == fetch'[f]
<1>1. /\ fetch[f].at = "finish" /\ UNCHANGED <<files, held, stopping, shared>>
      /\ fetch[f].plan # {} /\ fetch[f].todo = {} /\ fetch[f].flight = {}
      /\ present' = present \ {image}
      /\ Goes(f, [fetch[f] EXCEPT !.at = "prepare", !.reused[image] = {}, !.wants = extra,
                                  !.prep = extra, !.done = [l \in Layers |-> {}]])
  BY CallIs DEF LoadAgain, Loading, CallTypes
<1>2. image \in DOMAIN LayersOf
  BY <1>1, NextImageIs DEF FetchInv
<1>3. extra \subseteq Layers
  BY <1>2, CallIs DEF Calls
<1>4. DockerTypes' /\ Busy(f)
  BY <1>1 DEF FetchInv, DockerTypes, Busy
<1>5. /\ G = [fetch[f] EXCEPT !.at = "prepare", !.reused = [fetch[f].reused EXCEPT ![image] = {}],
                              !.wants = extra, !.prep = extra, !.done = [l \in Layers |-> {}]]
      /\ fetch' = [fetch EXCEPT ![f] = fetch'[f]]
  BY <1>1, CallIs DEF Goes
<1> HIDE DEF image, extra, G
<1>6. /\ G.at = "prepare" /\ G.prep = extra /\ G.wants = extra /\ G.plan = fetch[f].plan
      /\ G.todo = fetch[f].todo /\ G.flight = fetch[f].flight /\ G.live = fetch[f].live
      /\ G.wide = fetch[f].wide /\ G.done = [l \in Layers |-> {}] /\ G.end = fetch[f].end
  BY <1>5, CallIs DEF Calls
<1>7. CallTypes(f)'
  <2>1. G \in Calls
    <3>1. /\ [fetch[f].reused EXCEPT ![image] = {}] \in [DOMAIN LayersOf -> SUBSET Layers]
          /\ [l \in Layers |-> {}] \in [Layers -> SUBSET Nat] /\ "prepare" \in Stages
      BY CallIs DEF Calls, Stages
    <3> QED BY <1>3, <1>5, <3>1, CallIs DEF Calls
  <2> QED BY <1>1, <1>6, <2>1, CallIs DEF CallTypes, G
<1>8. ~shared => CallInv(f)'
  BY <1>1, <1>6, CallIs DEF CallInv, RestOpen, Rest, Apart, Landed, There, Unbroken, G
<1>9. Busy(f)' /\ TakesTheRest(f)
  BY <1>6 DEF Busy, TakesTheRest, G
<1> QED BY <1>1, <1>4, <1>5, <1>7, <1>8, <1>9, FilesKeep, OneMoves

LEMMA LoadFailsKeeps == ASSUME FetchInv, NEW f \in Fetchers, LoadFails(f) PROVE Keeps
<1>1. Ends(f, "refused") /\ UNCHANGED <<files, shared>>
  BY DEF LoadFails
<1>2. DockerTypes'
  BY DEF LoadFails, FetchInv, DockerTypes
<1> QED BY <1>1, <1>2, EndKeeps DEF EndSet

LEMMA RemoveFilesKeeps == ASSUME FetchInv, NEW f \in Fetchers, RemoveFiles(f) PROVE Keeps
<1> DEFINE l == NextLayer(f)  G == fetch'[f]
<1>1. /\ fetch[f].at = "discard" /\ fetch[f].prep # {} /\ UNCHANGED <<docker, stopping, shared>>
      /\ fetch[f].todo = {} /\ fetch[f].flight = {}
  BY CallIs DEF RemoveFiles, CallTypes
<1>2. l \in fetch[f].prep /\ l \in Layers
  BY <1>1, CallIs, NextLayerIs
<1>3. DOMAIN blob = Layers /\ DOMAIN part = Layers /\ DOMAIN marks = Layers
  BY DEF FetchInv, FileTypes
<1>4. DockerTypes' /\ Busy(f)
  BY <1>1, DockerKeeps DEF Busy
<1>5. CASE blob[l] # None \/ part[l] # None
  <2>1. /\ blob' = [blob EXCEPT ![l] = None] /\ part' = [part EXCEPT ![l] = None]
        /\ UNCHANGED <<marks, fetch>>
    BY <1>5 DEF RemoveFiles
  <2> HIDE DEF l
  <2>2. /\ blob'[l] = None /\ part'[l] = None /\ DOMAIN blob' = Layers /\ DOMAIN part' = Layers
        /\ \A m \in Layers : m # l => blob'[m] = blob[m] /\ part'[m] = part[m]
    BY <1>2, <1>3, <2>1
  <2>3. FileTypes'
    BY <2>1, <2>2 DEF FetchInv, FileTypes
  <2>4. fetch' = [fetch EXCEPT ![f] = fetch'[f]] /\ CallTypes(f)' /\ Busy(f)' /\ TakesTheRest(f)
    <3>1. fetch \in [Fetchers -> Calls]
      BY DEF FetchInv, FetchTypes
    <3> QED BY <1>4, <2>1, <3>1, CallIs DEF CallTypes, Busy, TakesTheRest
  <2>5. ASSUME ~shared PROVE Cache' /\ CallInv(f)'
    <3>1. Cache /\ CallInv(f)
      BY <2>5, CallIs DEF FetchInv, CacheInv
    <3>2. Cache'
      BY <2>1, <2>2, <3>1 DEF Cache, Whole
    <3>3. CallInv(f)'
      BY <1>1, <2>1, <2>2, <3>1 DEF CallInv, RestOpen, Rest, Apart, Landed, There, Unbroken
    <3> QED BY <3>2, <3>3
  <2> QED BY <1>1, <1>4, <2>3, <2>4, <2>5, OneMoves
<1>6. CASE ~(blob[l] # None \/ part[l] # None)
  <2>1. /\ marks' = [marks EXCEPT ![l] = {}] /\ UNCHANGED <<blob, part>>
        /\ Goes(f, [fetch[f] EXCEPT !.prep = @ \ {l}])
    BY <1>6 DEF RemoveFiles
  <2>2. G = [fetch[f] EXCEPT !.prep = fetch[f].prep \ {l}] /\ fetch' = [fetch EXCEPT ![f] = fetch'[f]]
    BY <2>1, CallIs DEF Goes
  <2> HIDE DEF G, l
  <2>3. /\ G.at = "discard" /\ G.plan = fetch[f].plan
        /\ G.todo = fetch[f].todo /\ G.flight = fetch[f].flight /\ G.live = fetch[f].live
        /\ G.wide = fetch[f].wide /\ G.done = fetch[f].done /\ G.end = fetch[f].end
    BY <1>1, <2>2, CallIs DEF Calls
  <2>4. CallTypes(f)'
    <3>1. G \in Calls
      BY <2>2, CallIs DEF Calls
    <3> QED BY <1>1, <2>3, <3>1, CallIs DEF CallTypes, G
  <2>5. marks'[l] = {} /\ DOMAIN marks' = Layers /\ \A m \in Layers : m # l => marks'[m] = marks[m]
    BY <1>2, <1>3, <2>1
  <2>6. FileTypes'
    BY <2>1, <2>5 DEF FetchInv, FileTypes
  <2>7. ASSUME ~shared PROVE Cache' /\ CallInv(f)'
    <3>1. Cache /\ CallInv(f)
      BY <2>7, CallIs DEF FetchInv, CacheInv
    <3>2. Cache'
      BY <2>1, <2>5, <3>1 DEF Cache, Whole
    <3>3. CallInv(f)'
      BY <1>1, <2>1, <2>3, <3>1 DEF CallInv, RestOpen, Rest, Apart, Landed, There, Unbroken, G
    <3> QED BY <3>2, <3>3
  <2>8. Busy(f)' /\ TakesTheRest(f)
    BY <2>3 DEF Busy, TakesTheRest, G
  <2> QED BY <1>1, <1>4, <2>2, <2>4, <2>6, <2>7, <2>8, OneMoves
<1> QED BY <1>5, <1>6

LEMMA ReturnKeeps == ASSUME FetchInv, NEW f \in Fetchers, Return(f) PROVE Keeps
<1> DEFINE how == IF fetch[f].error = "none" THEN "ok" ELSE fetch[f].error
<1>1. Ends(f, how) /\ UNCHANGED <<files, docker, stopping, shared>>
  BY DEF Return
<1>2. how \in EndSet /\ how # "broke"
  BY CallIs DEF Calls, Errors, EndSet
<1> HIDE DEF how
<1> QED BY <1>1, <1>2, EndKeeps, DockerKeeps

LEMMA DockerPullKeeps == ASSUME FetchInv, NEW f \in Fetchers, DockerPull(f) PROVE Keeps
<1>1. /\ UNCHANGED <<files, stopping, shared>>
      /\ \/ /\ present' = present \cup Range(Images[f])
            /\ held' = held \cup UNION {LayersOf[i] : i \in Range(Images[f])}
            /\ Ends(f, "ok")
         \/ Ends(f, "failed") /\ UNCHANGED docker
  BY DEF DockerPull
<1>2. DockerTypes'
  <2>1. Images[f] \in Seq(DOMAIN LayersOf) /\ \A i \in DOMAIN LayersOf : LayersOf[i] \subseteq Layers
    BY FetchAssumption
  <2>2. Range(Images[f]) \subseteq DOMAIN LayersOf
    BY <2>1 DEF Range
  <2>3. UNION {LayersOf[i] : i \in Range(Images[f])} \subseteq Layers
    BY <2>1, <2>2
  <2> QED BY <1>1, <2>2, <2>3 DEF FetchInv, DockerTypes, docker
<1> QED BY <1>1, <1>2, EndKeeps DEF EndSet

LEMMA StopAheadKeeps == ASSUME FetchInv, NEW f \in Fetchers, StopAhead(f) \/ NextCoreJob(f) PROVE Keeps
<1>1. UNCHANGED <<files, docker, fetch, shared>> /\ stopping' \subseteq Ahead
  BY DEF StopAhead, NextCoreJob, FetchInv, DockerTypes
<1>2. DockerTypes' /\ FetchTypes' /\ FileTypes'
  BY <1>1 DEF FetchInv, DockerTypes, FetchTypes, CallTypes, FileTypes, docker, files
<1>3. ~shared => CacheInv'
  BY <1>1 DEF FetchInv, CacheInv, Cache, Alone, Busy, Idles, CallInv, RestOpen, Rest, Apart,
    Landed, There, Cached,
    NextLayer, Unbroken, files
<1> QED BY <1>1, <1>2, <1>3 DEF FetchInv, Keeps, TakesTheRest

LEMMA WorkerDiesKeeps == ASSUME FetchInv, WorkerDies PROVE Keeps
<1>1. UNCHANGED <<files, docker, shared>> /\ fetch' = [f \in Fetchers |-> Idle] /\ stopping' = {}
  BY DEF WorkerDies
<1>2. DockerTypes' /\ FileTypes' /\ (~shared => Cache')
  BY <1>1, FilesKeep DEF FetchInv, DockerTypes, docker
<1>3. ASSUME NEW f \in Fetchers PROVE CallTypes(f)' /\ ~Busy(f)' /\ Idles(f)' /\ CallInv(f)' /\ fetch'[f] \in Calls
  <2>1. fetch'[f] = Ended("none")
    BY <1>1 DEF Idle
  <2>2. "none" \in EndSet /\ "none" # "broke"
    BY DEF EndSet
  <2>3. CallTypes(f)' /\ ~Busy(f)' /\ Idles(f)' /\ CallInv(f)'
    BY <2>1, <2>2, OverNext
  <2> QED BY <2>3 DEF CallTypes
<1>4. FetchTypes'
  BY <1>1, <1>3 DEF FetchTypes
<1>5. ~shared => CacheInv'
  BY <1>2, <1>3 DEF CacheInv, Alone
<1> QED BY <1>1, <1>2, <1>3, <1>4, <1>5 DEF FetchInv, Keeps, TakesTheRest, Idles

LEMMA FetchStarts == FetchInit => FetchInv
<1> SUFFICES ASSUME FetchInit PROVE FetchInv
  OBVIOUS
<1>1. /\ blob = [l \in Layers |-> None] /\ part = [l \in Layers |-> None] /\ marks = [l \in Layers |-> {}]
      /\ present = {} /\ held \subseteq Listed /\ fetch = [f \in Fetchers |-> Idle] /\ stopping = {}
  BY DEF FetchInit
<1>2. FileTypes /\ DockerTypes /\ Cache
  BY <1>1, FetchAssumption DEF FileTypes, DockerTypes, Cache
<1>3. ASSUME NEW f \in Fetchers PROVE CallTypes(f) /\ ~Busy(f) /\ Idles(f) /\ CallInv(f) /\ fetch[f] \in Calls
  <2>1. fetch[f] = Ended("none")
    BY <1>1 DEF Idle
  <2>2. "none" \in EndSet /\ "none" # "broke"
    BY DEF EndSet
  <2>3. CallTypes(f) /\ ~Busy(f) /\ Idles(f) /\ CallInv(f)
    BY <2>1, <2>2, OverIs
  <2> QED BY <2>3 DEF CallTypes
<1>4. FetchTypes
  BY <1>1, <1>3 DEF FetchTypes
<1>5. CacheInv
  BY <1>2, <1>3 DEF CacheInv, Alone
<1> QED BY <1>2, <1>4, <1>5 DEF FetchInv

LEMMA CallKeeps == ASSUME FetchInv, NEW f \in Fetchers, Call(f) PROVE Keeps
<1>1. ASSUME NEW t \in fetch[f].flight, ThreadStep(f, t) PROVE Keeps
  BY <1>1, ReceiveKeeps, RetryKeeps, NoRangesKeeps, StoppedKeeps, MarkKeeps DEF ThreadStep
<1> QED BY <1>1, PrepareKeeps, StartKeeps, WidenKeeps, TakeKeeps, JoinedKeeps, HashKeeps,
    RenameKeeps, UnlinkKeeps,
  LoadKeeps, LoadAgainKeeps, LoadFailsKeeps, RemoveFilesKeeps, ReturnKeeps DEF Call

LEMMA StutterKeeps == ASSUME FetchInv, UNCHANGED fetchVars PROVE Keeps
BY DEF Keeps, TakesTheRest, FetchInv, fetchVars, FileTypes, DockerTypes, FetchTypes, CallTypes,
  CacheInv, Cache, Alone, Busy, Idles, CallInv, RestOpen,
  Rest, Apart, Landed, There, Cached, NextLayer, Unbroken

LEMMA NextKeeps == ASSUME FetchInv, [FetchNext]_fetchVars PROVE Keeps
<1>1. CASE FetchNext
  BY <1>1, BeginKeeps, NoPlanKeeps, CallKeeps, DockerPullKeeps, StopAheadKeeps, WorkerDiesKeeps
    DEF FetchNext
<1>2. CASE UNCHANGED fetchVars
  BY <1>2, StutterKeeps
<1> QED BY <1>1, <1>2

LEMMA CacheIsTyped == FetchInv => FetchTypeOK
<1> SUFFICES ASSUME FetchInv PROVE FetchTypeOK
  OBVIOUS
<1>1. ASSUME NEW f \in Fetchers PROVE fetch[f].live \in 0 .. Wide /\ Cardinality(fetch[f].flight) <= Wide
  <2>1. /\ fetch[f].live \in Nat /\ fetch[f].live <= (IF fetch[f].wide THEN Wide ELSE Narrow)
        /\ Cardinality(fetch[f].flight) \in Nat /\ Cardinality(fetch[f].flight) <= fetch[f].live
    BY CallIs, FS_CardinalityType DEF CallTypes, Calls
  <2> QED BY <2>1, FetchAssumption
<1>2. \A l \in Layers : blob[l] \in {None} \cup File(l) /\ part[l] \in {None} \cup File(l) /\ marks[l] \subseteq Ranges(l)
  BY DEF FetchInv, FileTypes
<1>3. present \subseteq DOMAIN LayersOf /\ held \subseteq Layers /\ stopping \subseteq Ahead
  BY DEF FetchInv, DockerTypes
<1> QED BY <1>1, <1>2, <1>3 DEF FetchTypeOK, File

(* Everything CacheIsSound rests on holds in every state. *)
THEOREM FetchInvariance == FetchSpec => []FetchInv
<1>1. FetchInv /\ [FetchNext]_fetchVars => FetchInv'
  BY NextKeeps DEF Keeps
<1> QED BY FetchStarts, <1>1, PTL DEF FetchSpec

(* The cache of the downloads is sound for whoever has it to itself: every
   finished file is what its digest says, every range marked complete was
   received, none is fetched again, and no call ends with an error its caller does
   not expect, however many calls, threads, failures and deaths of the worker
   there were before
   (Downloader._prepare, _mark, _finish, BlobStore.remove). *)
THEOREM CacheStaysSound == FetchSpec => CacheIsSound
<1>1. FetchInv => FetchTypeOK
  BY CacheIsTyped
<1>2. FetchInv => BlobsAreWhole /\ MarksHaveBytes /\ NeverWorse
  BY DEF FetchInv, CacheInv, Cache, CallInv, Unbroken, BlobsAreWhole, MarksHaveBytes, NeverWorse
<1>3. FetchInv /\ [FetchNext]_fetchVars =>
        [\A f \in Fetchers : \A t \in fetch'[f].flight \ fetch[f].flight :
           LET l == t.range[1] IN
           ~t.got /\ ~shared /\ part[l] # None => t.range[2] \notin marks[l]]_fetchVars
  BY NextKeeps DEF Keeps, TakesTheRest
<1> QED BY <1>1, <1>2, <1>3, FetchInvariance, PTL DEF FetchSpec, CacheIsSound, FetchesOnlyTheRest
=============================================================================
