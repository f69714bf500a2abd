------------------------------ MODULE JobQueue ------------------------------
(***************************************************************************)
(* The durable job queue of Mu3Lab and the worker that runs it             *)
(* (ctl/jobs.py, ctl/worker.py, ctl/job_guard.py, ctl/job_processes.py,    *)
(* ctl/process.py and the WorkerLock of ctl/resource_locks.py).            *)
(*                                                                         *)
(* API threads queue, retry and cancel jobs in one SQLite database.        *)
(* Worker processes compete for a kernel lock; the one that holds it waits *)
(* for commands an earlier worker left behind, claims the oldest job,      *)
(* renews its lease from a second thread and runs its commands.  Workers   *)
(* are killed at any point; their commands may outlive them.               *)
(*                                                                         *)
(* Every action is one SQLite transaction, one system call, or one step of *)
(* the worker's loop.  Time is relative: lease[j] is what is left of the   *)
(* lease and left[w] what is left of a command's deadline, in ticks.       *)
(***************************************************************************)
EXTENDS Integers, Sequences, FiniteSets

CONSTANTS
  Jobs,          \* job ids (uuid4)
  Callers,       \* principals that queue jobs (actor_subject)
  Commands,      \* what a caller asks for: kind, service, action and parameters
  Services,      \* the services jobs are about (service_id)
  ServiceOf,     \* ServiceOf[c]: the service command c is about
  Keys,          \* idempotency keys
  NoKey,         \* a request without an idempotency key
  Workers,       \* worker processes; a restarted worker is a new one
  NoWorker, NoJob, NoService,
  Legacy,        \* jobs an older release left in waiting_for_confirmation
  LeaseTicks,    \* LEASE_SECONDS
  GiveUpTicks,   \* LEASE_SECONDS - 2 * RENEW_SECONDS: an unrenewable lease counts as lost
  DeadlineTicks, \* a command's timeout
  GraceTicks,    \* GRACE_SECONDS
  MaxCommands,   \* bound: commands and shields of one run of a job
  MaxFaults      \* bound: crashes and database errors in a behaviour

ASSUME ServiceAssumption == ServiceOf \in [Commands -> Services]
ASSUME NoneAssumption == NoKey \notin Keys /\ NoWorker \notin Workers /\ NoJob \notin Jobs /\ NoService \notin Services
ASSUME LegacyAssumption ==
  Legacy \subseteq Jobs /\ Legacy \intersect Commands = {} /\ Jobs \intersect Commands = {}
ASSUME BoundAssumption ==
  /\ LeaseTicks \in Nat \ {0} /\ GiveUpTicks \in 0 .. LeaseTicks
  /\ DeadlineTicks \in Nat \ {0} /\ GraceTicks \in Nat
  /\ MaxCommands \in Nat /\ MaxFaults \in Nat

VARIABLES
  \* the jobs table
  state, service, request, key, owner, lease, cancelRequested,
  order,         \* rows in insertion order (created_at, rowid)
  claims,        \* job.claimed audit rows of a job: none, one or several (2)
  remembered,    \* the mutation_requests table
  cancelling,    \* cancel() calls that read a job as not running and have not written yet
  \* the worker processes
  lock,          \* the holder of the kernel's worker lock
  pc, job,       \* each worker's place in its loop and the job it runs
  shielded,      \* inside job_guard.uncancellable
  lost,          \* Execution.lost
  age,           \* ticks since the lease was last renewed
  todo,          \* commands and shields this run may still start
  \* the commands
  alive,         \* the worker's command (its process group) is running
  tracked,       \* its row in job_processes
  left,          \* ticks until its deadline plus the grace
  \* history and bounds
  after,         \* unshielded commands of a job started after its cancellation was requested
  faults

rows   == <<state, service, request, key, owner, lease, cancelRequested, order, claims, remembered>>
api    == <<cancelling>>
loop   == <<lock, pc, job, shielded, lost, age, todo>>
procs  == <<alive, tracked, left>>
vars   == <<rows, api, loop, procs, after, faults>>

-----------------------------------------------------------------------------
(* Job states *)

Active == {"queued", "running", "waiting_for_confirmation"}
Terminal == {"succeeded", "failed", "cancelled"}
States == {"absent"} \union Active \union Terminal

Transitions ==
  [s \in States |->
     CASE s = "queued"  -> {"running", "waiting_for_confirmation", "failed", "cancelled"}
       [] s = "running" -> {"waiting_for_confirmation", "succeeded", "failed", "cancelled"}
       [] s = "waiting_for_confirmation" -> {"queued", "running", "failed", "cancelled"}
       [] OTHER -> {}]

CanMove_Any(from, to) == TRUE  \* mutant: no transition table
CanMove(from, to) == to = from \/ to \in Transitions[from]

(* A request's identity: who, which endpoint, what (the keyed hash). A retry's
   payload is the job it retries. *)
Request == [caller : Callers, namespace : {"jobs", "jobs.retry"}, payload : Commands \union Jobs]
NoRequest == [caller |-> "", namespace |-> "", payload |-> ""]

Running == {"step", "go", "spawned", "wait", "unwind_cancelled", "unwind_lost"}
PCs == {"off", "waiting", "idle", "ready", "dead"} \union Running

Init ==
  /\ state = [j \in Jobs |-> IF j \in Legacy THEN "waiting_for_confirmation" ELSE "absent"]
  /\ service \in [Jobs -> Services \union {NoService}]
  /\ \A j \in Jobs : service[j] = NoService <=> j \notin Legacy
  /\ \A i, j \in Legacy : service[i] = service[j] => i = j
  /\ request = [j \in Jobs |-> NoRequest]
  /\ key = [j \in Jobs |-> NoKey]
  /\ owner = [j \in Jobs |-> NoWorker]
  /\ lease = [j \in Jobs |-> 0]
  /\ cancelRequested = [j \in Jobs |-> FALSE]
  /\ order = <<>>
  /\ claims = [j \in Jobs |-> 0]
  /\ remembered = {}
  /\ cancelling = {}
  /\ lock = NoWorker
  /\ pc = [w \in Workers |-> "off"]
  /\ job = [w \in Workers |-> NoJob]
  /\ shielded = [w \in Workers |-> FALSE]
  /\ lost = [w \in Workers |-> FALSE]
  /\ age = [w \in Workers |-> 0]
  /\ todo = [w \in Workers |-> 0]
  /\ alive = [w \in Workers |-> FALSE]
  /\ tracked = [w \in Workers |-> FALSE]
  /\ left = [w \in Workers |-> 0]
  /\ after = [j \in Jobs |-> 0]
  /\ faults = 0

-----------------------------------------------------------------------------
(* API threads: JobStore.create, retry and cancel *)

ActiveOf_Queued(s, states) == {j \in Jobs : states[j] = "queued" /\ service[j] = s}  \* mutant
ActiveOf(s, states) == {j \in Jobs : states[j] \in Active /\ service[j] = s}

Replayed(caller, namespace, k) ==
  {m \in remembered : m.caller = caller /\ m.namespace = namespace /\ m.key = k}

(* _remember_request: only a request with a key is remembered. *)
Remember(r, k, j) ==
  remembered' = IF k = NoKey THEN remembered
                ELSE remembered \union {[caller |-> r.caller, namespace |-> r.namespace,
                                         key |-> k, payload |-> r.payload, job |-> j]}

(* create() from the job states its transaction sees: a key that replays changes
   nothing; the active job of the same request is joined; any other active job
   of the service refuses the request; otherwise a job is inserted. *)
Join(r, s, k, states) ==
  /\ \E j \in ActiveOf(s, states) : request[j] = r /\ Remember(r, k, j)
  /\ state' = states
  /\ UNCHANGED <<service, request, key, order>>

Insert(r, s, k, states) ==
  /\ ActiveOf(s, states) = {}
  /\ \E j \in Jobs :
       /\ state[j] = "absent"
       /\ state' = [states EXCEPT ![j] = "queued"]
       /\ service' = [service EXCEPT ![j] = s]
       /\ request' = [request EXCEPT ![j] = r]
       /\ key' = [key EXCEPT ![j] = k]
       /\ order' = Append(order, j)
       /\ Remember(r, k, j)

Submit(r, s, k, states) ==
  /\ k # NoKey => Replayed(r.caller, r.namespace, k) = {}
  /\ Join(r, s, k, states) \/ Insert(r, s, k, states)
  /\ UNCHANGED <<owner, lease, cancelRequested, claims, api, loop, procs, after, faults>>

Create(caller, command, k) ==
  Submit([caller |-> caller, namespace |-> "jobs", payload |-> command], ServiceOf[command], k, state)

(* A failed job is retried as a new job; a waiting one is cancelled in the same
   transaction, so that it no longer counts as active. *)
Retry(caller, j, k) ==
  /\ state[j] \in {"failed", "waiting_for_confirmation"}
  /\ Submit([caller |-> caller, namespace |-> "jobs.retry", payload |-> j], service[j], k,
            IF state[j] = "failed" THEN state ELSE [state EXCEPT ![j] = "cancelled"])

(* cancel() reads the job in one transaction. A running job is only asked to
   stop; any other is cancelled by transition(), in a second transaction. *)
RequestCancel(j) ==
  /\ state[j] # "absent"
  /\ IF state[j] = "running"
     THEN cancelRequested' = [cancelRequested EXCEPT ![j] = TRUE] /\ UNCHANGED cancelling
     ELSE cancelling' = cancelling \union {j} /\ UNCHANGED cancelRequested
  /\ UNCHANGED <<state, service, request, key, owner, lease, order, claims, remembered,
                 loop, procs, after, faults>>

CancelNow(j) ==
  /\ j \in cancelling
  /\ cancelling' = cancelling \ {j}
  /\ IF CanMove(state[j], "cancelled")
     THEN /\ state' = [state EXCEPT ![j] = "cancelled"]
          /\ owner' = [owner EXCEPT ![j] = NoWorker]
          /\ lease' = [lease EXCEPT ![j] = 0]
     ELSE UNCHANGED <<state, owner, lease>>
  /\ UNCHANGED <<service, request, key, cancelRequested, order, claims, remembered,
                 loop, procs, after, faults>>

-----------------------------------------------------------------------------
(* The worker's loop: lock, settle, claim *)

Go(w, place) == pc' = [pc EXCEPT ![w] = place]

(* The Execution of a job ends with its run. *)
EndRun(w) ==
  /\ job' = [job EXCEPT ![w] = NoJob]
  /\ shielded' = [shielded EXCEPT ![w] = FALSE]
  /\ lost' = [lost EXCEPT ![w] = FALSE]
  /\ age' = [age EXCEPT ![w] = 0]
  /\ todo' = [todo EXCEPT ![w] = 0]

Start(w) ==
  /\ pc[w] = "off"
  /\ Go(w, "waiting")
  /\ UNCHANGED <<rows, api, lock, job, shielded, lost, age, todo, procs, after, faults>>

LockFree_Always == TRUE  \* mutant: no flock
LockFree == lock = NoWorker

AcquireLock(w) ==
  /\ pc[w] = "waiting" /\ LockFree
  /\ lock' = w
  /\ Go(w, "idle")
  /\ UNCHANGED <<rows, api, job, shielded, lost, age, todo, procs, after, faults>>

(* The commands of these workers end; a deadline only counts for a running one. *)
Kill(ws) ==
  /\ alive' = [v \in Workers |-> alive[v] /\ v \notin ws]
  /\ left' = [v \in Workers |-> IF v \in ws THEN 0 ELSE left[v]]

(* JobProcesses.settle: forget recorded commands that ended, stop those past
   their deadline and the grace, and go on only when none is left. *)
Overdue == {v \in Workers : tracked[v] /\ alive[v] /\ left[v] = 0}
Leftovers == {v \in Workers : tracked[v] /\ alive[v] /\ left[v] > 0}

Settle(w) ==
  /\ pc[w] = "idle"
  /\ Kill(Overdue)
  /\ tracked' = [v \in Workers |-> v \in Leftovers]
  /\ Go(w, IF Leftovers = {} THEN "ready" ELSE "idle")
  /\ UNCHANGED <<rows, api, lock, job, shielded, lost, age, todo, after, faults>>

Expired_Never(j) == FALSE  \* mutant: only queued jobs are claimed
Expired(j) == state[j] = "running" /\ lease[j] = 0
Abandoned_None == {}  \* mutant: an expired cancelled job is claimed like any other
Abandoned == {j \in Jobs : Expired(j) /\ cancelRequested[j]}
Claimable(j) == state[j] = "queued" \/ (Expired(j) /\ j \notin Abandoned)
Positions == {n \in 1 .. Len(order) : Claimable(order[n])}
Oldest(j) == \E n \in Positions : order[n] = j /\ \A m \in Positions : n <= m

(* JobStore.claim: finish abandoned cancelled jobs, then take the oldest
   queued job or the oldest running one whose lease ran out. *)
Claim(w) ==
  /\ pc[w] = "ready"
  /\ IF Positions = {}
     THEN /\ state' = [j \in Jobs |-> IF j \in Abandoned THEN "cancelled" ELSE state[j]]
          /\ owner' = [j \in Jobs |-> IF j \in Abandoned THEN NoWorker ELSE owner[j]]
          /\ Go(w, "idle")
          /\ UNCHANGED <<lease, claims, job, shielded, lost, age, todo>>
     ELSE \E j \in Jobs :
          /\ Oldest(j)
          /\ state' = [i \in Jobs |-> CASE i = j -> "running"
                                        [] i \in Abandoned -> "cancelled"
                                        [] OTHER -> state[i]]
          /\ owner' = [i \in Jobs |-> CASE i = j -> w
                                        [] i \in Abandoned -> NoWorker
                                        [] OTHER -> owner[i]]
          /\ lease' = [lease EXCEPT ![j] = LeaseTicks]
          /\ claims' = [claims EXCEPT ![j] = IF @ = 2 THEN 2 ELSE @ + 1]
          /\ Go(w, "step")
          /\ job' = [job EXCEPT ![w] = j]
          /\ shielded' = [shielded EXCEPT ![w] = FALSE]
          /\ lost' = [lost EXCEPT ![w] = FALSE]
          /\ age' = [age EXCEPT ![w] = 0]
          /\ todo' = [todo EXCEPT ![w] = MaxCommands]
  /\ UNCHANGED <<service, request, key, cancelRequested, order, remembered, api, lock,
                 procs, after, faults>>

-----------------------------------------------------------------------------
(* Running a job: checkpoints, commands, the final transition *)

(* JobStore.interruption, and the lost event the checkpoint looks at first. *)
Interruption_NoCancel(w) == IF lost[w] THEN "unwind_lost" ELSE "none"  \* mutant
Interruption(w) ==
  LET j == job[w] IN
  IF lost[w] THEN "unwind_lost"
  ELSE CASE state[j] = "cancelled" -> "unwind_cancelled"
         [] state[j] = "queued" -> "unwind_lost"
         [] state[j] = "running" /\ owner[j] # w -> "unwind_lost"
         [] state[j] = "running" /\ owner[j] = w /\ cancelRequested[j] -> "unwind_cancelled"
         [] OTHER -> "none"

(* checkpoint: raise JobInterrupted, or let the next command start. *)
Deferred(w, reason) == reason = "unwind_cancelled" /\ shielded[w]

Checkpoint(w) ==
  /\ pc[w] = "step" /\ todo[w] > 0
  /\ LET reason == Interruption(w) IN
     Go(w, IF reason = "none" \/ Deferred(w, reason) THEN "go" ELSE reason)
  /\ todo' = [todo EXCEPT ![w] = @ - 1]
  /\ UNCHANGED <<rows, api, lock, job, shielded, lost, age, procs, after, faults>>

EnterShield(w) ==
  /\ pc[w] = "step" /\ todo[w] > 0 /\ ~shielded[w]
  /\ shielded' = [shielded EXCEPT ![w] = TRUE]
  /\ todo' = [todo EXCEPT ![w] = @ - 1]
  /\ UNCHANGED <<rows, api, lock, pc, job, lost, age, procs, after, faults>>

LeaveShield(w) ==
  /\ pc[w] = "step" /\ shielded[w]
  /\ shielded' = [shielded EXCEPT ![w] = FALSE]
  /\ UNCHANGED <<rows, api, lock, pc, job, lost, age, todo, procs, after, faults>>

(* process.run: Popen, then the tracker's INSERT, which may fail and is then
   ignored ("bookkeeping must never stop the command itself"). *)
Spawn(w) ==
  /\ pc[w] = "go"
  /\ alive' = [alive EXCEPT ![w] = TRUE]
  /\ left' = [left EXCEPT ![w] = DeadlineTicks + GraceTicks]
  /\ after' = IF cancelRequested[job[w]] /\ ~shielded[w] /\ after[job[w]] < 2
              THEN [after EXCEPT ![job[w]] = @ + 1] ELSE after
  /\ Go(w, "spawned")
  /\ UNCHANGED <<rows, api, lock, job, shielded, lost, age, todo, tracked, faults>>

Track(w) ==
  /\ pc[w] = "spawned"
  /\ tracked' = [tracked EXCEPT ![w] = TRUE]
  /\ Go(w, "wait")
  /\ UNCHANGED <<rows, api, lock, job, shielded, lost, age, todo, alive, left, after, faults>>

TrackFails(w) ==
  /\ pc[w] = "spawned" /\ faults < MaxFaults
  /\ faults' = faults + 1
  /\ Go(w, "wait")
  /\ UNCHANGED <<rows, api, lock, job, shielded, lost, age, todo, procs, after>>

(* The command's whole process group ends by itself, its worker alive or not. *)
CommandEnds(w) ==
  /\ alive[w]
  /\ Kill({w})
  /\ UNCHANGED <<rows, api, loop, tracked, after, faults>>

(* The command is reaped, stopped first when its deadline has passed. *)
Reap(w) ==
  /\ pc[w] = "wait"
  /\ ~alive[w] \/ left[w] <= GraceTicks
  /\ Kill({w})
  /\ tracked' = [tracked EXCEPT ![w] = FALSE]
  /\ Go(w, "step")
  /\ UNCHANGED <<rows, api, lock, job, shielded, lost, age, todo, after, faults>>

(* transition() to the job's outcome, on the runner's thread. *)
Finish(w, outcome) ==
  LET j == job[w] IN
  /\ pc[w] = "step" /\ ~shielded[w]
  /\ CASE state[j] = "running" /\ owner[j] # w ->
            Go(w, "unwind_lost") /\ UNCHANGED <<state, owner, lease, job, shielded, lost, age, todo>>
       [] state[j] = "cancelled" ->
            Go(w, "unwind_cancelled") /\ UNCHANGED <<state, owner, lease, job, shielded, lost, age, todo>>
       [] OTHER ->
            /\ state' = IF CanMove(state[j], outcome) THEN [state EXCEPT ![j] = outcome] ELSE state
            /\ owner' = [owner EXCEPT ![j] = NoWorker]
            /\ lease' = [lease EXCEPT ![j] = 0]
            /\ EndRun(w)
            /\ Go(w, "idle")
  /\ UNCHANGED <<service, request, key, cancelRequested, order, claims, remembered, api,
                 lock, procs, after, faults>>

(* run_job's handler of JobInterrupted: acknowledge a cancellation, leave the
   job to its lease otherwise. *)
Unwind(w) ==
  LET j == job[w] IN
  /\ pc[w] \in {"unwind_cancelled", "unwind_lost"}
  /\ IF pc[w] = "unwind_cancelled" /\ state[j] = "running" /\ owner[j] = w
     THEN /\ state' = [state EXCEPT ![j] = "cancelled"]
          /\ owner' = [owner EXCEPT ![j] = NoWorker]
          /\ lease' = [lease EXCEPT ![j] = 0]
     ELSE UNCHANGED <<state, owner, lease>>
  /\ Go(w, "idle")
  /\ EndRun(w)
  /\ UNCHANGED <<service, request, key, cancelRequested, order, claims, remembered, api,
                 lock, procs, after, faults>>

-----------------------------------------------------------------------------
(* The heartbeat thread, crashes and time *)

Heartbeat(w) ==
  /\ pc[w] \in Running /\ ~lost[w]
  /\ IF state[job[w]] = "running" /\ owner[job[w]] = w
     THEN /\ lease' = [lease EXCEPT ![job[w]] = LeaseTicks]
          /\ age' = [age EXCEPT ![w] = 0]
          /\ UNCHANGED lost
     ELSE lost' = [lost EXCEPT ![w] = TRUE] /\ UNCHANGED <<lease, age>>
  /\ UNCHANGED <<state, service, request, key, owner, cancelRequested, order, claims, remembered,
                 api, lock, pc, job, shielded, todo, procs, after, faults>>

(* A locked or unreadable database: retried until the lease could have run out. *)
HeartbeatFails(w) ==
  /\ pc[w] \in Running /\ ~lost[w] /\ faults < MaxFaults
  /\ age[w] >= GiveUpTicks
  /\ lost' = [lost EXCEPT ![w] = TRUE]
  /\ faults' = faults + 1
  /\ UNCHANGED <<rows, api, lock, pc, job, shielded, age, todo, procs, after>>

(* The process ends, however it ends: the kernel frees its lock; its command
   ends with it (systemd) or lives on. *)
Crash(w) ==
  /\ pc[w] \notin {"off", "dead"} /\ faults < MaxFaults
  /\ faults' = faults + 1
  /\ Go(w, "dead")
  /\ lock' = IF lock = w THEN NoWorker ELSE lock
  /\ EndRun(w)
  /\ Kill({}) \/ Kill({w})
  /\ UNCHANGED <<rows, api, tracked, after>>

Down(n) == IF n > 0 THEN n - 1 ELSE 0

Tick ==
  /\ lease' = [j \in Jobs |-> Down(lease[j])]
  /\ left' = [w \in Workers |-> Down(left[w])]
  /\ age' = [w \in Workers |-> IF pc[w] \in Running /\ age[w] < LeaseTicks THEN age[w] + 1 ELSE age[w]]
  /\ UNCHANGED <<state, service, request, key, owner, cancelRequested, order, claims, remembered,
                 api, lock, pc, job, shielded, lost, todo, alive, tracked, after, faults>>

-----------------------------------------------------------------------------
Api ==
  \/ \E c \in Callers, k \in Keys \union {NoKey} :
       \/ \E d \in Commands : Create(c, d, k)
       \/ \E j \in Jobs : Retry(c, j, k)
  \/ \E j \in Jobs : RequestCancel(j) \/ CancelNow(j)

(* What a live worker does by itself, in program order. *)
Program(w) ==
  \/ Start(w) \/ AcquireLock(w) \/ Settle(w) \/ Claim(w)
  \/ Checkpoint(w) \/ LeaveShield(w) \/ Spawn(w) \/ Track(w) \/ Reap(w)
  \/ \E outcome \in {"succeeded", "failed"} : Finish(w, outcome)
  \/ Unwind(w)

Worker(w) ==
  \/ Program(w) \/ EnterShield(w) \/ TrackFails(w) \/ CommandEnds(w)
  \/ Heartbeat(w) \/ HeartbeatFails(w) \/ Crash(w)

Next == Api \/ (\E w \in Workers : Worker(w)) \/ Tick

Spec == Init /\ [][Next]_vars

(* systemd restarts the worker and schedules it; time passes. Nothing is assumed
   of callers, commands, heartbeats or faults. *)
Fairness == WF_vars(Tick) /\ \A w \in Workers : WF_vars(Program(w))

FairSpec == Spec /\ Fairness

-----------------------------------------------------------------------------
(* Properties *)

TypeOK ==
  /\ state \in [Jobs -> States]
  /\ service \in [Jobs -> Services \union {NoService}]
  /\ request \in [Jobs -> Request \union {NoRequest}]
  /\ key \in [Jobs -> Keys \union {NoKey}]
  /\ owner \in [Jobs -> Workers \union {NoWorker}]
  /\ lease \in [Jobs -> 0 .. LeaseTicks]
  /\ cancelRequested \in [Jobs -> BOOLEAN]
  /\ order \in Seq(Jobs)
  /\ claims \in [Jobs -> 0 .. 2]
  /\ remembered \subseteq [caller : Callers, namespace : {"jobs", "jobs.retry"}, key : Keys,
                           payload : Commands \union Jobs, job : Jobs]
  /\ cancelling \subseteq Jobs
  /\ lock \in Workers \union {NoWorker}
  /\ pc \in [Workers -> PCs]
  /\ job \in [Workers -> Jobs \union {NoJob}]
  /\ shielded \in [Workers -> BOOLEAN] /\ lost \in [Workers -> BOOLEAN]
  /\ age \in [Workers -> 0 .. LeaseTicks]
  /\ todo \in [Workers -> 0 .. MaxCommands]
  /\ alive \in [Workers -> BOOLEAN] /\ tracked \in [Workers -> BOOLEAN]
  /\ left \in [Workers -> 0 .. DeadlineTicks + GraceTicks]
  /\ after \in [Jobs -> 0 .. 2]
  /\ faults \in 0 .. MaxFaults

(* A service never has two active jobs, however creations, joins, retries,
   cancellations and claims interleave (jobs.py create, retry). *)
OneActivePerService ==
  \A i, j \in Jobs : state[i] \in Active /\ state[j] \in Active /\ service[i] = service[j] => i = j

(* One caller's idempotency key creates at most one job in its namespace, also
   after that job was cancelled, failed or retried (jobs.py _replay). *)
KeyCreatesOnce ==
  \A i, j \in Jobs :
    key[i] # NoKey /\ key[i] = key[j] /\ request[i].caller = request[j].caller
      /\ request[i].namespace = request[j].namespace => i = j

(* A worker that runs a job is the only one doing so, and no command an earlier
   worker recorded is still running (worker.py: "no job is claimed while a
   command an earlier worker started is still running"). *)
RunsAlone ==
  \A w \in Workers : pc[w] \in Running =>
    \A v \in Workers \ {w} : pc[v] \notin Running /\ ~(alive[v] /\ tracked[v])

(* After a cancellation was requested at most the command that had already
   passed its checkpoint starts (job_guard.py: "nothing after it runs"). *)
NothingAfterCancel == \A j \in Jobs : after[j] <= 1

(* A job whose cancellation was requested is never claimed again: its worker's
   death ends it as cancelled (jobs.py claim). *)
CancelledNeverRestarts ==
  [][\A j \in Jobs : cancelRequested[j] /\ owner'[j] # owner[j] => owner'[j] = NoWorker]_vars

(* A queued or running job is eventually finished although workers die, leases
   are lost and commands hang until their deadline. *)
JobsFinish ==
  \A j \in Jobs : state[j] \in {"queued", "running"} ~> state[j] \in Terminal

(* The queue implements the contract. *)
PhaseOf(st) ==
  IF st = "running" THEN "started"
  ELSE IF st \in {"queued", "waiting_for_confirmation"} THEN "open" ELSE st

Contract == INSTANCE JobContract WITH phase <- [j \in Jobs |-> PhaseOf(state[j])], about <- service

ContractSpec == Contract!Spec

-----------------------------------------------------------------------------
(* What the documentation says and the code does not do *)

(* cancel(): "Returns the job's state: cancelled, or cancelling while its worker
   finishes the command it is in and acknowledges" (jobs.py:525). *)
CancelledIsQuiet ==
  \A w \in Workers : pc[w] \in {"spawned", "wait"} /\ alive[w] => state[job[w]] # "cancelled"

(* "no job is claimed while a command an earlier worker started is still
   running" (worker.py:9). *)
NoClaimOverCommand ==
  \A w, v \in Workers : pc[w] \in Running /\ v # w => ~alive[v]

(* "more than one means an earlier worker died running it" (jobs.py:313). *)
ReclaimMeansDeath ==
  \A j \in Jobs : claims[j] > 1 => \E w \in Workers : pc[w] = "dead"
=============================================================================
