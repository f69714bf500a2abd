----------------------------- MODULE ImageFetch -----------------------------
(* Mu3Lab's own image downloads (src/ctl/image_fetch.py): the layers of an   *)
(* app's images are fetched in ranges by a few threads into a cache that     *)
(* outlives the call, checked against their digests and handed to Docker.    *)
(*                                                                           *)
(* Two callers of one worker share the cache: the core job's downloads ahead *)
(* (core_setup._DownloadsAhead) and an app's own install                     *)
(* (engine.install.download_images).  A batch's downloads                    *)
(* (download_manager._download) make the same call with a cache of their own.*)
EXTENDS Naturals, Sequences, FiniteSets, Functions

CONSTANTS Fetchers,    \* the callers
          Ahead,       \* those that have a stop event
          Images,      \* each caller's images, in order
          LayersOf,    \* the layers of an image
          Size,        \* the ranges of a layer
          Order,       \* the layers, largest first
          Listed,      \* the layers Docker's local images list
          Narrow, Wide,\* NARROW_WIDTH and WIDE_WIDTH
          Retries,     \* RETRIES
          MaxFetches,  \* bound: calls made
          MaxTrouble   \* bound: failures, refusals, wrong bytes, worker deaths

Layers == Range(Order)
None   == <<>>

ASSUME FetchAssumption ==
  /\ Ahead \subseteq Fetchers
  /\ Order \in Seq(Layers) /\ Listed \subseteq Layers
  /\ \A l \in Layers : Size[l] \in Nat \ {0}
  /\ \A i \in DOMAIN LayersOf : LayersOf[i] \subseteq Layers
  /\ \A f \in Fetchers : Images[f] \in Seq(DOMAIN LayersOf)
  /\ Narrow \in Nat \ {0} /\ Wide \in Nat /\ Narrow <= Wide
  /\ Retries \in Nat \ {0}

VARIABLES
  blob,       \* a layer's finished file: None, or its ranges
  part,       \* a layer's part file: None, or its ranges
  marks,      \* the ranges a layer's .ranges file says are complete
  present,    \* the images Docker has
  held,       \* the layers Docker really stores
  fetch,      \* each call: where it is and what it keeps in memory
  stopping,   \* the callers whose stop event is set
  shared,     \* history: two calls have used the cache at the same time
  calls, trouble

files  == <<blob, part, marks>>
docker == <<present, held>>
fetchVars == <<blob, part, marks, present, held, fetch, stopping, shared, calls, trouble>>

Ended(how) ==
  [at |-> "idle", plan |-> {}, reused |-> [i \in DOMAIN LayersOf |-> {}], wants |-> {}, first |-> {},
   prep |-> {}, todo |-> {}, flight |-> {}, live |-> 0, wide |-> FALSE,
   done |-> [l \in Layers |-> {}], error |-> "none", end |-> how]
Idle == Ended("none")

FetchInit ==
  /\ blob = [l \in Layers |-> None] /\ part = [l \in Layers |-> None]
  /\ marks = [l \in Layers |-> {}]
  /\ present = {}
  /\ held \in SUBSET Listed
  /\ fetch = [f \in Fetchers |-> Idle]
  /\ stopping = {} /\ shared = FALSE /\ calls = 0 /\ trouble = 0

-----------------------------------------------------------------------------
(* Helpers *)

Busy(f)     == fetch[f].at # "idle"
\* Images, layers and ranges are handled in a fixed order, so that what is left
\* of a list is a set: the next one is the first of its members in that order.
FirstIn(order, left) ==
  order[CHOOSE j \in DOMAIN order : order[j] \in left /\ \A k \in 1..(j - 1) : order[k] \notin left]
FirstRange(left) ==
  CHOOSE x \in left : /\ x[1] = FirstIn(Order, {y[1] : y \in left})
                      /\ \A y \in left : y[1] = x[1] => x[2] <= y[2]
NextLayer(f) == FirstIn(Order, fetch[f].prep)
NextImage(f) == FirstIn(Images[f], fetch[f].plan)
Ranges(l)   == 1..Size[l]
Whole(file) == file # None /\ \A r \in DOMAIN file : file[r] = "right"
Believed    == Listed \cup UNION {LayersOf[i] : i \in present}

Goes(f, changed) == fetch' = [fetch EXCEPT ![f] = changed]
\* A call that raises or returns: its memory goes with it.
Ends(f, how)     == fetch' = [fetch EXCEPT ![f] = Ended(how)]
Trouble          == trouble < MaxTrouble /\ trouble' = trouble + 1

-----------------------------------------------------------------------------
(* Planning *)

\* The images Docker lacks are resolved and each plan learns which layers
\* Docker is believed to hold; a manifest it cannot read counts for none.
Begin(f) ==
  LET missing  == Range(Images[f]) \ present
      layers   == UNION {LayersOf[i] : i \in missing}
  IN /\ ~Busy(f) /\ calls < MaxFetches
     /\ f \in Ahead => f \notin stopping
     /\ calls' = calls + 1
     /\ shared' = (shared \/ \E g \in Fetchers : Busy(g))
     /\ IF missing = {}
        THEN Ends(f, "ok")
        ELSE \E known \in SUBSET (layers \cap Believed) :
               fetch' = [fetch EXCEPT ![f] =
                           [Idle EXCEPT !.at = "prepare", !.plan = missing,
                              !.reused = [i \in DOMAIN LayersOf |-> LayersOf[i] \cap known],
                              !.wants = layers \ known, !.first = layers \ known,
                              !.prep = layers \ known]]
     /\ UNCHANGED <<files, docker, stopping, trouble>>

\* The registry does not answer as expected, or the disk lacks the space.
NoPlan(f) ==
  /\ ~Busy(f) /\ calls < MaxFetches
  /\ f \in Ahead => f \notin stopping
  /\ \E i \in Range(Images[f]) : i \notin present
  /\ Trouble /\ calls' = calls + 1
  /\ Ends(f, "refused")
  /\ UNCHANGED <<files, docker, stopping, shared>>

-----------------------------------------------------------------------------
(* The downloader *)

\* Mutant: the marks are believed without their part file.
PrepareTrustsMarks(f) ==
  LET l    == NextLayer(f)
      new  == part[l] = None /\ marks[l] = {}
      done == marks[l]
  IN /\ fetch[f].at = "prepare" /\ fetch[f].prep # {}
     /\ IF blob[l] # None
        THEN /\ Goes(f, [fetch[f] EXCEPT !.prep = @ \ {l}])
             /\ UNCHANGED files
        ELSE /\ Goes(f, [fetch[f] EXCEPT !.prep = @ \ {l}, !.done[l] = done,
                                           !.todo = @ \cup ({l} \X (Ranges(l) \ done))])
             /\ part' = IF new THEN [part EXCEPT ![l] = [r \in Ranges(l) |-> "hole"]] ELSE part
             /\ marks' = IF new THEN [marks EXCEPT ![l] = {}] ELSE marks
             /\ UNCHANGED blob
     /\ UNCHANGED <<docker, stopping, shared, calls, trouble>>

\* What an earlier call finished is kept: the finished file, or the marked
\* ranges of a part file; a new part file begins with no marks.
Prepare(f) ==
  LET l    == NextLayer(f)
      new  == part[l] = None
      done == IF new THEN {} ELSE marks[l]
  IN /\ fetch[f].at = "prepare" /\ fetch[f].prep # {}
     /\ IF blob[l] # None
        THEN /\ Goes(f, [fetch[f] EXCEPT !.prep = @ \ {l}])
             /\ UNCHANGED files
        ELSE /\ Goes(f, [fetch[f] EXCEPT !.prep = @ \ {l}, !.done[l] = done,
                                           !.todo = @ \cup ({l} \X (Ranges(l) \ done))])
             /\ part' = IF new THEN [part EXCEPT ![l] = [r \in Ranges(l) |-> "hole"]] ELSE part
             /\ marks' = IF new THEN [marks EXCEPT ![l] = {}] ELSE marks
             /\ UNCHANGED blob
     /\ UNCHANGED <<docker, stopping, shared, calls, trouble>>

Start(f) ==
  /\ fetch[f].at = "prepare" /\ fetch[f].prep = {}
  /\ Goes(f, [fetch[f] EXCEPT !.at = "threads", !.live = Narrow, !.wide = FALSE])
  /\ UNCHANGED <<files, docker, stopping, shared, calls, trouble>>

\* Each connection proves slow while ranges still wait and a thread is alive.
Widen(f) ==
  /\ fetch[f].at = "threads" /\ ~fetch[f].wide
  /\ fetch[f].todo # {} /\ fetch[f].error = "none" /\ fetch[f].live > 0
  /\ Goes(f, [fetch[f] EXCEPT !.wide = TRUE, !.live = @ + (Wide - Narrow)])
  /\ UNCHANGED <<files, docker, stopping, shared, calls, trouble>>

\* A free thread takes the next range.
Take(f) ==
  /\ fetch[f].at = "threads" /\ fetch[f].todo # {} /\ fetch[f].error = "none"
  /\ Cardinality(fetch[f].flight) < fetch[f].live
  /\ LET next == FirstRange(fetch[f].todo) IN
       Goes(f, [fetch[f] EXCEPT !.todo = @ \ {next},
                                !.flight = @ \cup {[range |-> next, try |-> 1, got |-> FALSE]}])
  /\ UNCHANGED <<files, docker, stopping, shared, calls, trouble>>

Becomes(f, t, u) == Goes(f, [fetch[f] EXCEPT !.flight = (@ \ {t}) \cup {u}])
\* A thread stops with an error; only the first one is kept.
Fails(f, t, error) ==
  Goes(f, [fetch[f] EXCEPT !.flight = @ \ {t}, !.live = @ - 1,
                           !.error = IF @ = "none" THEN error ELSE @])

\* All bytes of a range are written to the part file, which must exist.
Receive(f, t) ==
  LET l == t.range[1] IN
  /\ ~t.got /\ part[l] # None
  /\ \/ part' = [part EXCEPT ![l][t.range[2]] = "right"] /\ UNCHANGED trouble
     \/ part' = [part EXCEPT ![l][t.range[2]] = "wrong"] /\ Trouble
  /\ Becomes(f, t, [t EXCEPT !.got = TRUE])
  /\ UNCHANGED <<blob, marks, docker, stopping, shared, calls>>

\* A transport error, a short read or a vanished part file: tried again, with
\* the last attempt refusing the whole download.
Retry(f, t) ==
  /\ ~t.got
  /\ IF part[t.range[1]] = None THEN UNCHANGED trouble ELSE Trouble
  /\ IF t.try < Retries THEN Becomes(f, t, [t EXCEPT !.try = @ + 1])
                        ELSE Fails(f, t, "refused")
  /\ UNCHANGED <<files, docker, stopping, shared, calls>>

\* The registry does not serve partial downloads.
NoRanges(f, t) ==
  /\ ~t.got /\ Trouble /\ Fails(f, t, "refused")
  /\ UNCHANGED <<files, docker, stopping, shared, calls>>

Stopped(f, t) ==
  /\ ~t.got /\ f \in stopping /\ Fails(f, t, "paused")
  /\ UNCHANGED <<files, docker, stopping, shared, calls, trouble>>

\* The range joins this call's own set, which replaces the .ranges file.
Mark(f, t) ==
  LET l    == t.range[1]
      done == fetch[f].done[l] \cup {t.range[2]}
  IN /\ t.got
     /\ marks' = [marks EXCEPT ![l] = done]
     /\ Goes(f, [fetch[f] EXCEPT !.flight = @ \ {t}, !.done[l] = done])
     /\ UNCHANGED <<blob, part, docker, stopping, shared, calls, trouble>>

\* Mutant: the call waits for the queue, which nobody empties after an error.
JoinedWhenEmpty(f) ==
  /\ fetch[f].at = "threads" /\ fetch[f].flight = {}
  /\ fetch[f].todo = {}
  /\ IF fetch[f].error # "none"
     THEN Ends(f, fetch[f].error)
     ELSE Goes(f, [fetch[f] EXCEPT !.at = "finish", !.live = 0, !.prep = fetch[f].wants])
  /\ UNCHANGED <<files, docker, stopping, shared, calls, trouble>>

\* Every thread has ended, the queue being empty or an error known.
Joined(f) ==
  /\ fetch[f].at = "threads" /\ fetch[f].flight = {}
  /\ fetch[f].todo = {} \/ fetch[f].error # "none"
  /\ IF fetch[f].error # "none"
     THEN Ends(f, fetch[f].error)
     ELSE Goes(f, [fetch[f] EXCEPT !.at = "finish", !.live = 0, !.prep = fetch[f].wants])
  /\ UNCHANGED <<files, docker, stopping, shared, calls, trouble>>

-----------------------------------------------------------------------------
(* Checking, loading and clearing *)

Hash(f) ==
  LET l == NextLayer(f) IN
  /\ fetch[f].at = "finish" /\ fetch[f].prep # {}
  /\ CASE blob[l] # None -> Goes(f, [fetch[f] EXCEPT !.prep = @ \ {l}])
       [] blob[l] = None /\ part[l] = None -> Ends(f, "broke")
       [] blob[l] = None /\ Whole(part[l]) -> Goes(f, [fetch[f] EXCEPT !.at = "rename"])
       [] OTHER -> Goes(f, [fetch[f] EXCEPT !.at = "discard", !.prep = {l}, !.error = "refused"])
  /\ UNCHANGED <<files, docker, stopping, shared, calls, trouble>>

Rename(f) ==
  LET l == NextLayer(f) IN
  /\ fetch[f].at = "rename"
  /\ IF part[l] = None
     THEN Ends(f, "broke") /\ UNCHANGED files
     ELSE /\ blob' = [blob EXCEPT ![l] = part[l]]
          /\ part' = [part EXCEPT ![l] = None]
          /\ Goes(f, [fetch[f] EXCEPT !.at = "unlink"])
          /\ UNCHANGED marks
  /\ UNCHANGED <<docker, stopping, shared, calls, trouble>>

Unlink(f) ==
  /\ fetch[f].at = "unlink"
  /\ marks' = [marks EXCEPT ![NextLayer(f)] = {}]
  /\ Goes(f, [fetch[f] EXCEPT !.at = "finish", !.prep = @ \ {NextLayer(f)}])
  /\ UNCHANGED <<blob, part, docker, stopping, shared, calls, trouble>>

\* Every layer is checked; the images are loaded one after the other.
Loading(f) == fetch[f].at = "finish" /\ fetch[f].prep = {}

\* Docker takes an archive whose layers match their digests, if it stores the
\* layers the archive leaves out.
Loads(f, image) ==
  /\ \A l \in LayersOf[image] \ fetch[f].reused[image] : Whole(blob[l])
  /\ fetch[f].reused[image] \subseteq held

Load(f) ==
  LET image == NextImage(f) IN
  /\ Loading(f) /\ Loads(f, image)
  /\ present' = present \cup {image}
  /\ held' = held \cup LayersOf[image]
  /\ LET left == fetch[f].plan \ {image} IN
       IF left # {} THEN Goes(f, [fetch[f] EXCEPT !.plan = left])
       ELSE Goes(f, [fetch[f] EXCEPT !.plan = left, !.at = "discard", !.prep = fetch[f].first])
  /\ UNCHANGED <<files, stopping, shared, calls, trouble>>

\* A layer thought to be in Docker is not there: the layers this image reused
\* are fetched too, by a new downloader, and the image is loaded again.
LoadAgain(f) ==
  LET image == NextImage(f)
      extra == fetch[f].reused[image]
  IN /\ Loading(f) /\ ~Loads(f, image) /\ extra # {}
     /\ present' = present \ {image}
     /\ Goes(f, [fetch[f] EXCEPT !.at = "prepare", !.reused[image] = {}, !.wants = extra,
                                 !.prep = extra, !.done = [l \in Layers |-> {}]])
     /\ UNCHANGED <<files, held, stopping, shared, calls, trouble>>

LoadFails(f) ==
  LET image == NextImage(f) IN
  /\ Loading(f)
  /\ IF Loads(f, image) THEN Trouble ELSE UNCHANGED trouble
  /\ present' = present \ {image}
  /\ Ends(f, "refused")
  /\ UNCHANGED <<files, held, stopping, shared, calls>>

\* BlobStore.remove: the finished and the part file go before the marks.
RemoveFiles(f) ==
  LET l == NextLayer(f) IN
  /\ fetch[f].at = "discard" /\ fetch[f].prep # {}
  /\ IF blob[l] # None \/ part[l] # None
     THEN /\ blob' = [blob EXCEPT ![l] = None] /\ part' = [part EXCEPT ![l] = None]
          /\ UNCHANGED <<marks, fetch>>
     ELSE /\ marks' = [marks EXCEPT ![l] = {}]
          /\ Goes(f, [fetch[f] EXCEPT !.prep = @ \ {l}])
          /\ UNCHANGED <<blob, part>>
  /\ UNCHANGED <<docker, stopping, shared, calls, trouble>>

Return(f) ==
  /\ fetch[f].at = "discard" /\ fetch[f].prep = {}
  /\ Ends(f, IF fetch[f].error = "none" THEN "ok" ELSE fetch[f].error)
  /\ UNCHANGED <<files, docker, stopping, shared, calls, trouble>>

-----------------------------------------------------------------------------
(* The callers and the world *)

\* An install whose fast path refused falls back to Docker's own pull.
DockerPull(f) ==
  /\ f \notin Ahead /\ fetch[f].end = "refused"
  /\ \/ /\ present' = present \cup Range(Images[f])
        /\ held' = held \cup UNION {LayersOf[i] : i \in Range(Images[f])}
        /\ Ends(f, "ok") /\ UNCHANGED trouble
     \/ Trouble /\ Ends(f, "failed") /\ UNCHANGED docker
  /\ UNCHANGED <<files, stopping, shared, calls>>

\* The core job ends: its downloads ahead are told to stop, and not waited for.
StopAhead(f) ==
  /\ f \in Ahead /\ Busy(f) /\ f \notin stopping
  /\ stopping' = stopping \cup {f}
  /\ UNCHANGED <<files, docker, fetch, shared, calls, trouble>>

\* The next core job has a stop event of its own.
NextCoreJob(f) ==
  /\ f \in stopping /\ ~Busy(f)
  /\ stopping' = stopping \ {f}
  /\ UNCHANGED <<files, docker, fetch, shared, calls, trouble>>

WorkerDies ==
  /\ \E f \in Fetchers : Busy(f)
  /\ Trouble
  /\ fetch' = [f \in Fetchers |-> Idle]
  /\ stopping' = {}
  /\ UNCHANGED <<files, docker, shared, calls>>

ThreadStep(f, t) == Receive(f, t) \/ Retry(f, t) \/ NoRanges(f, t) \/ Stopped(f, t) \/ Mark(f, t)

Call(f) ==
  \/ Prepare(f) \/ Start(f) \/ Widen(f) \/ Take(f) \/ Joined(f)
  \/ \E t \in fetch[f].flight : ThreadStep(f, t)
  \/ Hash(f) \/ Rename(f) \/ Unlink(f)
  \/ Load(f) \/ LoadAgain(f) \/ LoadFails(f) \/ RemoveFiles(f) \/ Return(f)

FetchNext ==
  \/ \E f \in Fetchers : Begin(f) \/ NoPlan(f) \/ Call(f) \/ DockerPull(f)
                         \/ StopAhead(f) \/ NextCoreJob(f)
  \/ WorkerDies

\* The worker's threads run on; nobody is obliged to start, stop or kill a call.
FetchFairness == WF_fetchVars(\E f \in Fetchers : Call(f))

FetchSpec == FetchInit /\ [][FetchNext]_fetchVars /\ FetchFairness

-----------------------------------------------------------------------------
(* Properties *)

FetchTypeOK ==
  /\ \A l \in Layers :
       /\ blob[l] \in {None} \cup [Ranges(l) -> {"right", "wrong", "hole"}]
       /\ part[l] \in {None} \cup [Ranges(l) -> {"right", "wrong", "hole"}]
       /\ marks[l] \subseteq Ranges(l)
  /\ present \subseteq DOMAIN LayersOf /\ held \subseteq Layers
  /\ \A f \in Fetchers : fetch[f].live \in 0..Wide /\ Cardinality(fetch[f].flight) <= Wide
  /\ stopping \subseteq Ahead

\* A finished file is what its digest says, whatever was interrupted before:
\* the next call trusts it without hashing it again (Downloader._prepare).
BlobsAreWhole == ~shared => \A l \in Layers : blob[l] # None => Whole(blob[l])

\* A range the .ranges file calls complete was received into this very part
\* file, also after a worker's death between any two steps: a resumed download
\* leaves no hole (Downloader._prepare, _mark, BlobStore.remove).
MarksHaveBytes ==
  ~shared => \A l \in Layers : part[l] # None =>
               \A r \in marks[l] : part[l][r] # "hole"

\* "Anything unexpected raises FetchError and the caller falls back to
\* Docker's own pull" (module docstring): a call that has the cache to itself
\* never ends with a missing file, the error nobody falls back from.
NeverWorse == ~shared => \A f \in Fetchers : fetch[f].end # "broke"

\* A range finished before a pause, a failure or a worker's death is not
\* fetched again while its part file exists (BlobStore.completed).
FetchesOnlyTheRest ==
  [][\A f \in Fetchers : \A t \in fetch'[f].flight \ fetch[f].flight :
       LET l == t.range[1] IN
       ~t.got /\ ~shared /\ part[l] # None => t.range[2] \notin marks[l]]_fetchVars

\* The cache two callers share is sound for whoever has it to itself, and its
\* finished ranges are used.
CacheIsSound == [](FetchTypeOK /\ BlobsAreWhole /\ MarksHaveBytes /\ NeverWorse) /\ FetchesOnlyTheRest

\* Every call ends, with its images loaded, paused or refused (again and again
\* no call runs): the first error reaches every thread of Downloader._parallel,
\* and Docker lacking a layer costs fetch_images one more round.
FetchEnds == []<>(\A f \in Fetchers : ~Busy(f))
=============================================================================
