---------------------------- MODULE InstallBatch ----------------------------
(***************************************************************************)
(* Installing several apps at once (ctl/install_batches.py,                *)
(* ctl/download_manager.py, ctl/api/routes/install_batches.py and the      *)
(* batch calls of ctl/worker.py).                                          *)
(*                                                                         *)
(* An owner's batch holds one item per app.  Download threads of the       *)
(* worker fetch images, several at a time; apps are set up one at a time,  *)
(* in the owner's order, when their download is ready and the apps they    *)
(* need are installed.  Three kinds of actors change a batch, each in      *)
(* several transactions: API threads (create, cancel, reset, pause ...),   *)
(* the download threads, and the worker's main thread, which runs one job  *)
(* at a time, records how it ended and reconciles batches between jobs.    *)
(*                                                                         *)
(* The jobs themselves are the queue of JobQueue: at most one active job   *)
(* per app, and a key creates at most one job.                             *)
(***************************************************************************)
EXTENDS Integers, FiniteSets

CONSTANTS
  Apps,          \* optional apps of the catalog (service_id)
  Needs,         \* Needs[a]: the apps a depends on (registry dependencies)
  Batches, Owners, NoBatch, NoOwner, NoApp,
  Selections,    \* what an owner of this instance selects at once
  MaxParallel,   \* MAX_PARALLEL_DOWNLOADS
  MaxRequests,   \* bound: install requests of a behaviour
  MaxReorders,   \* bound: reorderings
  MaxPauses,     \* bound: downloads paused
  MaxForeign,    \* bound: jobs on these apps that no batch created
  MaxCancels,    \* bound: batches and single jobs cancelled
  MaxResets,     \* bound: calls of begin_reset
  MaxCrashes,    \* bound: restarts of the worker or of the API process
  MaxEvents      \* bound: reorders, pauses, foreign jobs, cancels and crashes together

ASSUME NeedsAssumption == Needs \in [Apps -> SUBSET Apps] /\ Selections \subseteq SUBSET Apps
ASSUME NoneAssumption == NoBatch \notin Batches /\ NoOwner \notin Owners /\ NoApp \notin Apps
ASSUME BoundAssumption ==
  /\ IsFiniteSet(Apps) /\ MaxParallel \in Nat \ {0}
  /\ MaxRequests \in Nat /\ MaxReorders \in Nat /\ MaxPauses \in Nat /\ MaxForeign \in Nat
  /\ MaxCancels \in Nat /\ MaxResets \in Nat /\ MaxCrashes \in Nat /\ MaxEvents \in Nat

VARIABLES
  \* install_batches
  batch, owner, parallel,
  \* install_batch_items
  item, download, ordinal, priority,
  link,          \* the job an item's job_id names: its installation or its cleanup
  \* the jobs of an item: batch.install and batch.reset requests create one each
  install, cleanup,
  foreign,       \* jobs on an app queued by other requests
  installed,     \* apps that are installed
  removed,       \* apps that were installed, or cleaned up, and do not count any more
  \* the worker
  main, mainBatch, mainApp,  \* the main thread: where it is and what it works on
  seen,          \* the batch state advance_for_job read
  thread, stop, target,      \* download threads, their stop event, the app they enqueue
  \* API calls between two of their transactions
  asked,         \* create: the plan
  cancelling,    \* cancel: jobs dealt with, batch not yet written
  resetting, resetApp,       \* begin_reset
  budget         \* what is left of each bound

batches == <<batch, owner, parallel>>
items   == <<item, download, ordinal, priority, link>>
jobs    == <<install, cleanup, foreign, installed, removed>>
worker  == <<main, mainBatch, mainApp, seen>>
threads == <<thread, stop, target>>
api     == <<asked, cancelling, resetting, resetApp>>
vars    == <<batches, items, jobs, worker, threads, api, budget>>

BatchStates == {"none", "running", "cancelled", "succeeded", "completed_with_failures",
                "resetting", "reset", "reset_failed"}
ItemStates == {"none", "pending", "queued", "succeeded", "failed", "cancelled",
               "blocked_by_dependency", "reset_pending", "resetting", "reset", "reset_failed"}
Live == {"queued", "running"}
Over == {"succeeded", "failed", "cancelled"}
JobStates == {"absent"} \union Live \union Over

Each(value) == [b \in Batches |-> [a \in Apps |-> value]]

Init ==
  /\ batch = [b \in Batches |-> "none"]
  /\ owner = [b \in Batches |-> NoOwner]
  /\ parallel = [b \in Batches |-> 1]
  /\ item = Each("none") /\ download = Each("none") /\ link = Each("none")
  /\ ordinal = Each(0) /\ priority = Each(0)
  /\ install = Each("absent") /\ cleanup = Each("absent")
  /\ foreign = [a \in Apps |-> "absent"]
  /\ installed = {} /\ removed = {}
  /\ main = "loop" /\ mainBatch = NoBatch /\ mainApp = NoApp /\ seen = "none"
  /\ thread = Each("off") /\ stop = Each(FALSE) /\ target = Each(NoApp)
  /\ asked = [o \in Owners |-> {}]
  /\ cancelling = {}
  /\ resetting = [b \in Batches |-> "none"] /\ resetApp = [b \in Batches |-> NoApp]
  /\ budget = [requests |-> MaxRequests, reorders |-> MaxReorders, pauses |-> MaxPauses,
               foreign |-> MaxForeign, cancels |-> MaxCancels, resets |-> MaxResets,
               crashes |-> MaxCrashes, events |-> MaxEvents]

(* Requests and clean-ups have a bound of their own only; the rest share one. *)
Spend(bound) ==
  LET spent == IF bound \in {"requests", "resets"} THEN {bound} ELSE {bound, "events"} IN
  /\ \A n \in spent : budget[n] > 0
  /\ budget' = [n \in DOMAIN budget |-> IF n \in spent THEN budget[n] - 1 ELSE budget[n]]

Members(b) == {a \in Apps : item[b][a] # "none"}
Pending(b) == {a \in Apps : item[b][a] = "pending"}
Queued(b) == {a \in Apps : item[b][a] = "queued"}

(* What a set of apps needs, directly or through others: the least set that has
   them and, with each app, those it depends on. *)
Closed(S) == \A a \in S : Needs[a] \subseteq S
Closure(S) == {a \in Apps : \A T \in SUBSET Apps : S \subseteq T /\ Closed(T) => a \in T}

DependsOn(a, needed) == needed \in Closure(Needs[a])

(* ORDER BY priority, ordinal *)
Before(b, x, y) ==
  \/ priority[b][x] < priority[b][y]
  \/ priority[b][x] = priority[b][y] /\ ordinal[b][x] < ordinal[b][y]
First(b, S) == {a \in S : \A x \in S \ {a} : Before(b, a, x)}

-----------------------------------------------------------------------------
(* create: plan, then record the items in one transaction *)

Plan(requested) == Closure(requested) \ installed

Ask(o, requested) ==
  /\ Spend("requests")
  /\ requested # {} /\ asked[o] = {} /\ Plan(requested) # {}
  /\ asked' = [asked EXCEPT ![o] = Plan(requested)]
  /\ UNCHANGED <<batches, items, jobs, worker, threads, cancelling, resetting, resetApp>>

BusyApps(b) ==
  {a \in Apps : \E other \in Batches \ {b} :
     batch[other] \in {"running", "resetting"} /\ item[other][a] \in {"pending", "queued", "resetting"}}

(* Orders in which each app comes after those it needs. *)
Ranks(S) ==
  {rank \in [S -> 0 .. Cardinality(S) - 1] :
     \A x, y \in S : x # y => rank[x] # rank[y] /\ (DependsOn(x, y) => rank[y] < rank[x])}

(* One more than the greatest number in use in the batch, or 0. *)
NextNumber(number, used) ==
  CHOOSE n \in 0 .. Cardinality(Apps) :
    /\ \A a \in used : number[a] < n
    /\ n = 0 \/ \E a \in used : number[a] = n - 1

Add(b, fresh, n) ==
  \E rank \in Ranks(fresh) :
    LET first == NextNumber(ordinal[b], Members(b))
        last == NextNumber(priority[b], Members(b))
    IN
    /\ item' = [item EXCEPT ![b] = [a \in Apps |-> IF a \in fresh THEN "pending" ELSE @[a]]]
    /\ ordinal' = [ordinal EXCEPT ![b] = [a \in Apps |-> IF a \in fresh THEN first + rank[a] ELSE @[a]]]
    /\ priority' = [priority EXCEPT ![b] = [a \in Apps |-> IF a \in fresh THEN last + rank[a] ELSE @[a]]]
    /\ parallel' = [parallel EXCEPT ![b] = n]

Active(o) == {b \in Batches : owner[b] = o /\ batch[b] = "running"}

Submit(o, n) ==
  /\ asked[o] # {}
  /\ asked' = [asked EXCEPT ![o] = {}]
  /\ \E b \in IF Active(o) # {} THEN Active(o) ELSE {b \in Batches : batch[b] = "none"} :
       LET fresh == asked[o] \ Members(b) IN
       \/ /\ fresh # {} /\ fresh \intersect BusyApps(b) = {}
          /\ Add(b, fresh, n)
          /\ batch' = [batch EXCEPT ![b] = "running"]
          /\ owner' = [owner EXCEPT ![b] = o]
       \/ /\ fresh = {} \/ fresh \intersect BusyApps(b) # {}
          /\ UNCHANGED <<batches, item, ordinal, priority>>
  /\ UNCHANGED <<download, link, jobs, worker, threads, cancelling, resetting, resetApp, budget>>

-----------------------------------------------------------------------------
(* The owner's changes to a batch: one transaction each *)

PauseDownload(b, a) ==
  /\ Spend("pauses")
  /\ item[b][a] = "pending" /\ download[b][a] \in {"none", "downloading"}
  /\ download' = [download EXCEPT ![b][a] = "paused"]
  /\ UNCHANGED <<batches, item, ordinal, priority, link, jobs, worker, threads, api>>

ResumeDownload(b, a) ==
  /\ item[b][a] = "pending" /\ download[b][a] = "paused"
  /\ download' = [download EXCEPT ![b][a] = "none"]
  /\ UNCHANGED <<batches, item, ordinal, priority, link, jobs, worker, threads, api, budget>>

Reorder(b, listed) ==
  /\ Spend("reorders")
  /\ Members(b) # {} /\ listed \subseteq Members(b)
  /\ \E position \in [listed -> 0 .. Cardinality(listed) - 1] :
       /\ \A x, y \in listed : x # y => position[x] # position[y]
       /\ priority' = [priority EXCEPT ![b] =
            [a \in Apps |-> IF a \in listed \intersect Pending(b) THEN position[a] ELSE @[a]]]
  /\ UNCHANGED <<batches, item, download, ordinal, link, jobs, worker, threads, api>>

SetParallel(b, n) ==
  /\ Spend("reorders")
  /\ batch[b] # "none"
  /\ parallel' = [parallel EXCEPT ![b] = n]
  /\ UNCHANGED <<batch, owner, items, jobs, worker, threads, api>>

-----------------------------------------------------------------------------
(* Downloads: DownloadManager.tick and its threads *)

Wanted(b) == {a \in Pending(b) : batch[b] = "running" /\ download[b][a] # "ready"}
Startable(b) == {a \in Wanted(b) : download[b][a] # "paused" /\ thread[b][a] = "off"}
Running(b) == {a \in Apps : thread[b][a] # "off"}

StopDownload(b, a) ==
  /\ thread[b][a] # "off" /\ ~stop[b][a]
  /\ a \notin Wanted(b) \/ download[b][a] = "paused"
  /\ stop' = [stop EXCEPT ![b][a] = TRUE]
  /\ UNCHANGED <<batches, items, jobs, worker, thread, target, api, budget>>

StartDownload(b, a) ==
  /\ a \in First(b, Startable(b))
  /\ Cardinality(Running(b)) < parallel[b]
  /\ thread' = [thread EXCEPT ![b][a] = "start"]
  /\ stop' = [stop EXCEPT ![b][a] = FALSE]
  /\ UNCHANGED <<batches, items, jobs, worker, target, api, budget>>

(* set_download_state: a pause the owner asked for wins over a start, not over
   an end. *)
SetDownload(b, a, to) ==
  download' = IF item[b][a] = "pending" /\ ~(download[b][a] = "paused" /\ to = "downloading")
              THEN [download EXCEPT ![b][a] = to] ELSE download

BeginDownload(b, a) ==
  /\ thread[b][a] = "start"
  /\ SetDownload(b, a, "downloading")
  /\ thread' = [thread EXCEPT ![b][a] = "fetch"]
  /\ UNCHANGED <<batches, item, ordinal, priority, link, jobs, worker, stop, target, api, budget>>

(* The images are here, or setup will pull them itself. *)
EndDownload(b, a) ==
  /\ thread[b][a] = "fetch"
  /\ SetDownload(b, a, "ready")
  /\ thread' = [thread EXCEPT ![b][a] = "continue"]
  /\ UNCHANGED <<batches, item, ordinal, priority, link, jobs, worker, stop, target, api, budget>>

AbandonDownload(b, a) ==
  /\ thread[b][a] = "fetch" /\ stop[b][a]
  /\ thread' = [thread EXCEPT ![b][a] = "off"]
  /\ stop' = [stop EXCEPT ![b][a] = FALSE]
  /\ UNCHANGED <<batches, items, jobs, worker, target, api, budget>>

-----------------------------------------------------------------------------
(* continue_batch: claim the next app in one transaction, queue its job in
   another *)

Ready_AnyOrder(b) == {a \in Pending(b) : download[b][a] = "ready"}  \* mutant
Ready(b) ==
  {a \in Pending(b) : download[b][a] = "ready"
                      /\ \A d \in Needs[a] \intersect Members(b) : item[b][d] = "succeeded"}

Vacant(b) == Queued(b) = {}

FailureStates == {"failed", "cancelled", "blocked_by_dependency"}

(* mutant: the next app is claimed while one is being set up *)
ClaimNext_Occupied(b, a) ==
  /\ batch[b] = "running"
  /\ a \in First(b, Ready(b))
  /\ item' = [item EXCEPT ![b][a] = "queued"]
  /\ UNCHANGED batch

ClaimNext(b, a) ==
  /\ batch[b] = "running" /\ Vacant(b)
  /\ a \in First(b, Ready(b))
  /\ item' = [item EXCEPT ![b][a] = "queued"]
  /\ UNCHANGED batch

FinishBatch(b) ==
  /\ batch[b] = "running" /\ Vacant(b) /\ Pending(b) = {}
  /\ batch' = [batch EXCEPT ![b] = IF \E a \in Apps : item[b][a] \in FailureStates
                                   THEN "completed_with_failures" ELSE "succeeded"]
  /\ UNCHANGED item

NothingToClaim(b) ==
  /\ batch[b] # "running" \/ ~Vacant(b) \/ (Ready(b) = {} /\ Pending(b) # {})
  /\ UNCHANGED <<batch, item>>

HasJob(a) ==
  \/ foreign[a] \in Live
  \/ \E b \in Batches : install[b][a] \in Live \/ cleanup[b][a] \in Live

(* _enqueue: the key replays an earlier job of the item, another active job of
   the app refuses it, or a job is created and the item and batch follow. *)
Enqueue(b, a) ==
  IF install[b][a] = "absent" /\ ~HasJob(a)
  THEN /\ install' = [install EXCEPT ![b][a] = "queued"]
       /\ item' = [item EXCEPT ![b][a] = "queued"]
       /\ link' = [link EXCEPT ![b][a] = "install"]
       /\ batch' = [batch EXCEPT ![b] = "running"]
  ELSE UNCHANGED <<install, item, link, batch>>

(* _enqueue_reset, likewise. *)
EnqueueCleanup(b, a) ==
  IF cleanup[b][a] = "absent" /\ ~HasJob(a)
  THEN /\ cleanup' = [cleanup EXCEPT ![b][a] = "queued"]
       /\ item' = [item EXCEPT ![b][a] = "resetting"]
       /\ link' = [link EXCEPT ![b][a] = "cleanup"]
       /\ batch' = [batch EXCEPT ![b] = "resetting"]
  ELSE UNCHANGED <<cleanup, item, link, batch>>

(* A download thread continues its batch. *)
ThreadContinue(b, a) ==
  /\ thread[b][a] = "continue"
  /\ \/ \E x \in Apps :
          /\ ClaimNext(b, x)
          /\ thread' = [thread EXCEPT ![b][a] = "enqueue"]
          /\ target' = [target EXCEPT ![b][a] = x]
          /\ UNCHANGED stop
     \/ /\ FinishBatch(b) \/ NothingToClaim(b)
        /\ thread' = [thread EXCEPT ![b][a] = "off"]
        /\ stop' = [stop EXCEPT ![b][a] = FALSE]
        /\ UNCHANGED target
  /\ UNCHANGED <<owner, parallel, download, ordinal, priority, link, jobs, worker, api, budget>>

ThreadEnqueue(b, a) ==
  /\ thread[b][a] = "enqueue"
  /\ Enqueue(b, target[b][a])
  /\ thread' = [thread EXCEPT ![b][a] = "off"]
  /\ stop' = [stop EXCEPT ![b][a] = FALSE]
  /\ target' = [target EXCEPT ![b][a] = NoApp]
  /\ UNCHANGED <<owner, parallel, download, ordinal, priority, cleanup, foreign, installed,
                 removed, worker, api, budget>>

-----------------------------------------------------------------------------
(* The worker's main thread: run a job, record how it ended, reconcile *)

At(place, b, a) == main' = place /\ mainBatch' = b /\ mainApp' = a
Loop == At("loop", NoBatch, NoApp) /\ seen' = "none"

MainContinue ==
  /\ main = "continue"
  /\ \/ \E a \in Apps : ClaimNext(mainBatch, a) /\ At("enqueue", mainBatch, a) /\ UNCHANGED seen
     \/ (FinishBatch(mainBatch) \/ NothingToClaim(mainBatch)) /\ Loop
  /\ UNCHANGED <<owner, parallel, download, ordinal, priority, link, jobs, threads, api, budget>>

MainEnqueue ==
  /\ main = "enqueue"
  /\ Enqueue(mainBatch, mainApp)
  /\ Loop
  /\ UNCHANGED <<owner, parallel, download, ordinal, priority, cleanup, foreign, installed, removed,
                 threads, api, budget>>

MainCleanup ==
  /\ main = "cleanup"
  /\ EnqueueCleanup(mainBatch, mainApp)
  /\ Loop
  /\ UNCHANGED <<owner, parallel, download, ordinal, priority, install, foreign, installed, removed,
                 threads, api, budget>>

(* Claim and run a job; one a crash left running is claimed again. *)
RunInstall(b, a) ==
  /\ main = "loop" /\ install[b][a] \in Live
  /\ install' = [install EXCEPT ![b][a] = "running"]
  /\ At("install", b, a) /\ UNCHANGED seen
  /\ UNCHANGED <<batches, items, cleanup, foreign, installed, removed, threads, api, budget>>

RunCleanup(b, a) ==
  /\ main = "loop" /\ cleanup[b][a] \in Live
  /\ cleanup' = [cleanup EXCEPT ![b][a] = "running"]
  /\ At("uninstall", b, a) /\ UNCHANGED seen
  /\ UNCHANGED <<batches, items, install, foreign, installed, removed, threads, api, budget>>

RunForeign(a) ==
  /\ main = "loop" /\ foreign[a] \in Live
  /\ foreign' = [foreign EXCEPT ![a] = "running"]
  /\ At("foreign", NoBatch, a) /\ UNCHANGED seen
  /\ UNCHANGED <<batches, items, install, cleanup, installed, removed, threads, api, budget>>

Put(a) == installed' = installed \union {a} /\ removed' = removed \ {a}
Remove(a) == installed' = installed \ {a} /\ removed' = removed \union {a}
(* A job that fails or is cancelled may leave a record that does not count. *)
Leave(a) == (a \in installed /\ Remove(a)) \/ UNCHANGED <<installed, removed>>

(* The job ends and the worker calls advance_for_job with its id, which finds
   the item that names the job, if one still does. *)
EndInstall(outcome) ==
  /\ main = "install"
  /\ install' = [install EXCEPT ![mainBatch][mainApp] = outcome]
  /\ IF outcome = "succeeded" THEN Put(mainApp) ELSE Leave(mainApp)
  /\ IF link[mainBatch][mainApp] = "install"
     THEN At("advance", mainBatch, mainApp) /\ UNCHANGED seen ELSE Loop
  /\ UNCHANGED <<batches, items, cleanup, foreign, threads, api, budget>>

EndCleanup(outcome) ==
  /\ main = "uninstall"
  /\ cleanup' = [cleanup EXCEPT ![mainBatch][mainApp] = outcome]
  /\ IF outcome = "succeeded" THEN Remove(mainApp) ELSE Leave(mainApp)
  /\ IF link[mainBatch][mainApp] = "cleanup"
     THEN At("advance", mainBatch, mainApp) /\ UNCHANGED seen ELSE Loop
  /\ UNCHANGED <<batches, items, install, foreign, threads, api, budget>>

(* A job no batch created: an installation, an uninstallation or reset, or one
   that changes no app's place. *)
EndForeign ==
  /\ main = "foreign"
  /\ foreign' = [foreign EXCEPT ![mainApp] = "absent"]
  /\ Put(mainApp) \/ Leave(mainApp)
  /\ Loop
  /\ UNCHANGED <<batches, items, install, cleanup, threads, api, budget>>

Outcome(b, a) == IF link[b][a] = "install" THEN install[b][a] ELSE cleanup[b][a]

(* reconcile: terminal jobs of active items, then every running batch. *)
Unrecorded(b) ==
  {a \in Apps : /\ batch[b] \in {"running", "resetting"}
                /\ item[b][a] \in {"queued", "resetting"} /\ link[b][a] # "none"
                /\ Outcome(b, a) \in Over}

ReconcileItem(b, a) ==
  /\ main = "loop" /\ a \in Unrecorded(b)
  /\ At("advance", b, a) /\ UNCHANGED seen
  /\ UNCHANGED <<batches, items, jobs, threads, api, budget>>

ReconcileBatch(b) ==
  /\ main = "loop"
  /\ \/ \E a \in Apps : ClaimNext(b, a) /\ At("enqueue", b, a)
     \/ FinishBatch(b) /\ UNCHANGED <<main, mainBatch, mainApp>>
  /\ UNCHANGED <<owner, parallel, download, ordinal, priority, link, jobs, seen, threads, api, budget>>

(* advance_for_job reads the job, the item and the batch ... *)
AdvanceRead ==
  /\ main = "advance"
  /\ LET state == item[mainBatch][mainApp] IN
     IF link[mainBatch][mainApp] # "none" /\ Outcome(mainBatch, mainApp) \in Over
        /\ state \notin {"succeeded", "cancelled", "reset"}
     THEN At("write", mainBatch, mainApp) /\ seen' = batch[mainBatch]
     ELSE Loop
  /\ UNCHANGED <<batches, items, jobs, threads, api, budget>>

(* ... and writes what they mean in a second transaction. *)
AdvanceCancelled ==
  /\ seen = "cancelled"
  /\ item' = [item EXCEPT ![mainBatch][mainApp] = Outcome(mainBatch, mainApp)]
  /\ UNCHANGED batch
  /\ Loop

ResetPending(b) == {a \in Apps : item[b][a] = "reset_pending"}
FirstOrdinal(b, S) == {a \in S : \A x \in S \ {a} : ordinal[b][a] < ordinal[b][x]}

AdvanceResetting ==
  /\ seen = "resetting"
  /\ \/ /\ Outcome(mainBatch, mainApp) # "succeeded"
        /\ item' = [item EXCEPT ![mainBatch][mainApp] = "reset_failed"]
        /\ batch' = [batch EXCEPT ![mainBatch] = "reset_failed"]
        /\ Loop
     \/ /\ Outcome(mainBatch, mainApp) = "succeeded"
        /\ item' = [item EXCEPT ![mainBatch][mainApp] = "reset"]
        /\ LET next == ResetPending(mainBatch) \ {mainApp} IN
           \/ /\ next = {}
              /\ batch' = [batch EXCEPT ![mainBatch] = "reset"]
              /\ Loop
           \/ /\ UNCHANGED <<batch, seen>>
              /\ \E a \in FirstOrdinal(mainBatch, next) : At("cleanup", mainBatch, a)

Blocked_None(b, a) == {}  \* mutant: nothing is blocked by a failure
Blocked(b, a) == {x \in Pending(b) : DependsOn(x, a)}

AdvanceInstall ==
  /\ seen \notin {"cancelled", "resetting"}
  /\ LET outcome == Outcome(mainBatch, mainApp)
         blocked == IF outcome = "succeeded" THEN {} ELSE Blocked(mainBatch, mainApp)
     IN item' = [item EXCEPT ![mainBatch] =
          [a \in Apps |-> IF a = mainApp THEN outcome
                          ELSE IF a \in blocked THEN "blocked_by_dependency" ELSE @[a]]]
  /\ UNCHANGED batch
  /\ At("continue", mainBatch, NoApp) /\ seen' = "none"

AdvanceWrite ==
  /\ main = "write"
  /\ AdvanceCancelled \/ AdvanceResetting \/ AdvanceInstall
  /\ UNCHANGED <<owner, parallel, download, ordinal, priority, link, jobs, threads, api, budget>>

-----------------------------------------------------------------------------
(* Other API calls: jobs on single apps, cancel and reset *)

CreateForeign(a) ==
  /\ Spend("foreign")
  /\ ~HasJob(a)
  /\ foreign' = [foreign EXCEPT ![a] = "queued"]
  /\ UNCHANGED <<batches, items, install, cleanup, installed, removed, worker, threads, api>>

CancelJob(b, a) ==
  /\ Spend("cancels")
  /\ install[b][a] = "queued"
  /\ install' = [install EXCEPT ![b][a] = "cancelled"]
  /\ UNCHANGED <<batches, items, cleanup, foreign, installed, removed, worker, threads, api>>

(* cancel: the queued job of the item being set up is cancelled first ... *)
CancelStart(b) ==
  /\ Spend("cancels")
  /\ batch[b] # "none" /\ b \notin cancelling
  /\ install' = [install EXCEPT ![b] =
       [a \in Apps |-> IF item[b][a] = "queued" /\ link[b][a] = "install" /\ @[a] = "queued"
                       THEN "cancelled" ELSE @[a]]]
  /\ cancelling' = cancelling \union {b}
  /\ UNCHANGED <<batches, items, cleanup, foreign, installed, removed, worker, threads, asked,
                 resetting, resetApp>>

(* ... then the batch, and every item not yet claimed. *)
DropPending_None(b) == item' = item  \* mutant: pending items stay
DropPending(b) ==
  item' = [item EXCEPT ![b] = [a \in Apps |-> IF @[a] = "pending" THEN "cancelled" ELSE @[a]]]

CancelFinish(b) ==
  /\ b \in cancelling
  /\ cancelling' = cancelling \ {b}
  /\ batch' = IF batch[b] \in {"running", "completed_with_failures"}
              THEN [batch EXCEPT ![b] = "cancelled"] ELSE batch
  /\ DropPending(b)
  /\ UNCHANGED <<owner, parallel, download, ordinal, priority, link, jobs, worker, threads,
                 asked, resetting, resetApp, budget>>

(* The route's checks and begin_reset's own; both only read. *)
Resettable == {"cancelled", "completed_with_failures", "reset_failed"}

ResetStart(b) ==
  /\ Spend("resets")
  /\ resetting[b] = "none" /\ batch[b] \in Resettable
  /\ \A a \in Apps : item[b][a] \in {"failed", "cancelled"} => ~HasJob(a)
  /\ resetting' = [resetting EXCEPT ![b] = "write"]
  /\ UNCHANGED <<batches, items, jobs, worker, threads, asked, cancelling, resetApp>>

ResetWrite(b) ==
  /\ resetting[b] = "write"
  /\ LET unfinished == {a \in Members(b) : item[b][a] \in {"failed", "cancelled", "reset_failed"}} IN
     /\ item' = [item EXCEPT ![b] =
          [a \in Apps |-> IF a \in unfinished THEN "reset_pending"
                          ELSE IF a \in Members(b) /\ @[a] # "succeeded" THEN "reset" ELSE @[a]]]
     /\ link' = [link EXCEPT ![b] = [a \in Apps |-> IF a \in unfinished THEN "none" ELSE @[a]]]
     /\ batch' = [batch EXCEPT ![b] = "resetting"]
     /\ \/ /\ unfinished = {}
           /\ resetting' = [resetting EXCEPT ![b] = "finish"]
           /\ UNCHANGED resetApp
        \/ \E a \in FirstOrdinal(b, unfinished) :
             /\ resetting' = [resetting EXCEPT ![b] = "enqueue"]
             /\ resetApp' = [resetApp EXCEPT ![b] = a]
  /\ UNCHANGED <<owner, parallel, download, ordinal, priority, jobs, worker, threads,
                 asked, cancelling, budget>>

ResetDone(b) ==
  /\ resetting' = [resetting EXCEPT ![b] = "none"]
  /\ resetApp' = [resetApp EXCEPT ![b] = NoApp]

ResetEnqueue(b) ==
  /\ resetting[b] = "enqueue"
  /\ EnqueueCleanup(b, resetApp[b])
  /\ ResetDone(b)
  /\ UNCHANGED <<owner, parallel, download, ordinal, priority, install, foreign, installed,
                 removed, worker, threads, asked, cancelling, budget>>

ResetFinish(b) ==
  /\ resetting[b] = "finish"
  /\ batch' = [batch EXCEPT ![b] = "reset"]
  /\ ResetDone(b)
  /\ UNCHANGED <<owner, parallel, items, jobs, worker, threads, asked, cancelling, budget>>

-----------------------------------------------------------------------------
(* Restarts: what a process had in memory is gone, its transactions are not *)

WorkerCrash ==
  /\ Spend("crashes")
  /\ Loop
  /\ thread' = Each("off") /\ stop' = Each(FALSE) /\ target' = Each(NoApp)
  /\ UNCHANGED <<batches, items, jobs, api>>

ApiCrash ==
  /\ Spend("crashes")
  /\ asked' = [o \in Owners |-> {}]
  /\ cancelling' = {}
  /\ resetting' = [b \in Batches |-> "none"] /\ resetApp' = [b \in Batches |-> NoApp]
  /\ UNCHANGED <<batches, items, jobs, worker, threads>>

Worker ==
  \/ MainContinue \/ MainEnqueue \/ MainCleanup \/ AdvanceRead \/ AdvanceWrite \/ EndForeign
  \/ \E outcome \in Over : EndInstall(outcome) \/ EndCleanup(outcome)
  \/ \E a \in Apps : RunForeign(a)
  \/ \E b \in Batches, a \in Apps : RunInstall(b, a) \/ RunCleanup(b, a) \/ ReconcileItem(b, a)
  \/ \E b \in Batches : ReconcileBatch(b)

Manager(b, a) == StopDownload(b, a) \/ StartDownload(b, a)
Thread(b, a) ==
  \/ BeginDownload(b, a) \/ EndDownload(b, a) \/ AbandonDownload(b, a)
  \/ ThreadContinue(b, a) \/ ThreadEnqueue(b, a)

Request ==
  \/ \E o \in Owners, requested \in Selections : Ask(o, requested)
  \/ \E o \in Owners, n \in 1 .. MaxParallel : Submit(o, n)
  \/ \E a \in Apps : CreateForeign(a)
  \/ \E b \in Batches, n \in 1 .. MaxParallel : SetParallel(b, n)
  \/ \E b \in Batches, listed \in SUBSET Apps : Reorder(b, listed)
  \/ \E b \in Batches, a \in Apps : PauseDownload(b, a) \/ ResumeDownload(b, a) \/ CancelJob(b, a)
  \/ \E b \in Batches : CancelStart(b) \/ ResetStart(b)

Answer(b) == CancelFinish(b) \/ ResetWrite(b) \/ ResetEnqueue(b) \/ ResetFinish(b)

Next ==
  \/ Worker \/ Request \/ WorkerCrash \/ ApiCrash
  \/ \E b \in Batches, a \in Apps : Manager(b, a) \/ Thread(b, a)
  \/ \E b \in Batches : Answer(b)

Spec == Init /\ [][Next]_vars

(* The worker's loop, the download manager, its threads and a request that was
   accepted all go on; jobs and downloads end (each has a timeout). *)
Fairness ==
  /\ WF_vars(Worker)
  /\ WF_vars(\E b \in Batches, a \in Apps : Manager(b, a) \/ Thread(b, a))
  /\ WF_vars(\E b \in Batches : Answer(b))
LiveSpec == Spec /\ Fairness

-----------------------------------------------------------------------------
(* Properties *)

TypeOK ==
  /\ batch \in [Batches -> BatchStates]
  /\ owner \in [Batches -> Owners \union {NoOwner}]
  /\ parallel \in [Batches -> 1 .. MaxParallel]
  /\ item \in [Batches -> [Apps -> ItemStates]]
  /\ download \in [Batches -> [Apps -> {"none", "downloading", "paused", "ready"}]]
  /\ ordinal \in [Batches -> [Apps -> 0 .. Cardinality(Apps) - 1]]
  /\ priority \in [Batches -> [Apps -> 0 .. Cardinality(Apps) - 1]]
  /\ link \in [Batches -> [Apps -> {"none", "install", "cleanup"}]]
  /\ install \in [Batches -> [Apps -> JobStates]]
  /\ cleanup \in [Batches -> [Apps -> JobStates]]
  /\ foreign \in [Apps -> JobStates]
  /\ installed \subseteq Apps /\ removed \subseteq Apps
  /\ main \in {"loop", "install", "uninstall", "foreign", "advance", "write", "continue",
               "enqueue", "cleanup"}
  /\ mainBatch \in Batches \union {NoBatch} /\ mainApp \in Apps \union {NoApp}
  /\ seen \in BatchStates
  /\ thread \in [Batches -> [Apps -> {"off", "start", "fetch", "continue", "enqueue"}]]
  /\ stop \in [Batches -> [Apps -> BOOLEAN]]
  /\ target \in [Batches -> [Apps -> Apps \union {NoApp}]]
  /\ asked \in [Owners -> SUBSET Apps]
  /\ cancelling \subseteq Batches
  /\ resetting \in [Batches -> {"none", "write", "enqueue", "finish"}]
  /\ resetApp \in [Batches -> Apps \union {NoApp}]

(* Apps of a batch that are claimed: being set up, or about to be by a thread
   that has not created the job yet. *)
Owed(b) ==
  {a \in Apps : \/ main = "enqueue" /\ mainBatch = b /\ mainApp = a
                \/ \E x \in Apps : thread[b][x] = "enqueue" /\ target[b][x] = a}
Claimed(b) == Queued(b) \union Owed(b)

(* continue_batch: two callers cannot both start a setup, whichever of the
   worker's main thread and its download threads they are and whatever the
   owner cancels, resets or appends meanwhile. *)
OneSetupPerBatch == \A b \in Batches : \A a1, a2 \in Claimed(b) : a1 = a2

(* Cancelling leaves nothing to claim: a cancelled batch sets up no app beyond
   the one already claimed, whichever thread was about to continue it. *)
CancelLeavesNothing == \A b \in Batches : batch[b] = "cancelled" => Pending(b) = {}

(* An app's installation is only queued when the apps it needs are installed:
   each was set up before it, by this batch or before it was planned, whatever
   order the downloads end in.  Only one that was taken away since, by somebody
   else's job, by one that failed on it or by the clean-up of a reset, may be
   missing: nothing looks again. *)
DependenciesFirst ==
  [][\A b \in Batches, a \in Apps :
       install[b][a] = "absent" /\ install'[b][a] = "queued"
         => Needs[a] \subseteq installed \union removed]_vars

(* A batch reported as succeeded installed every one of its apps: none failed,
   was cancelled, was blocked or was appended too late to be set up.  Once a
   clean-up was asked for it does not hold: a cancelled batch whose claimed app
   gets its job after begin_reset is running again and ends as succeeded with
   the other apps still to be cleaned up. *)
SuccessIsComplete ==
  budget.resets = MaxResets =>
    \A b \in Batches : batch[b] = "succeeded" => \A a \in Members(b) : item[b][a] = "succeeded"

(* The final state of a batch is true, whichever thread was about to continue
   it: a cancelled one claims no further app, one reported as succeeded set up
   all of them (continue_batch, cancel, advance_for_job). *)
EndStatesAreTrue == TypeOK /\ CancelLeavesNothing /\ SuccessIsComplete

(* create: an app is never in two installation queues at once. *)
Waiting(b) == IF batch[b] = "running" THEN Pending(b) \union Queued(b) ELSE {}
OneQueuePerApp ==
  \A b1, b2 \in Batches : b1 # b2 => Waiting(b1) \intersect Waiting(b2) = {}

(* A claimed app without a job and nobody about to create it: the process that
   claimed it died, or another request's job on the app refused the job. *)
Stranded(b) == Owed(b) = {} /\ \E a \in Queued(b) : link[b][a] = "none"

(* continue_batch, advance_for_job and reconcile: a running batch ends whatever
   fails, is cancelled or is fetched in which order, also when the worker dies
   between the end of a job and its record, unless the owner keeps a download paused or its
   claimed app is stranded.  A further request may add an app whose dependency
   has failed already, which nothing blocks, so the property speaks of the
   first request of a behaviour. *)
BatchEnds ==
  \A b \in Batches :
    batch[b] = "running" ~> \/ batch[b] # "running" \/ Stranded(b)
                            \/ \E a \in Apps : download[b][a] = "paused"
                            \/ budget.requests < MaxRequests - 1

-----------------------------------------------------------------------------
(* What a reader might expect and the code does not do *)

(* continue_batch and reconcile: a claimed app gets its job, also across
   restarts. *)
ClaimsGetJobs == \A b \in Batches : Stranded(b) ~> ~Stranded(b)

(* A cleanup that was started ends. *)
ResetEnds == \A b \in Batches : batch[b] = "resetting" ~> batch[b] # "resetting"

(* A batch that was reset has no installation under way. *)
ResetIsQuiet == \A b \in Batches : batch[b] = "reset" => \A a \in Apps : install[b][a] \notin Live

(* Cleanup is for apps whose installation failed, never for an installed one. *)
CleanupSparesInstalled ==
  \A b \in Batches, a \in Apps : main = "uninstall" /\ mainApp = a => a \notin installed
=============================================================================
