---------------------------- MODULE SelfUpdate ----------------------------
(* Mu3Lab updates itself (ctl/self_update.py): the worker, still running the
   old code, checks the release out, matches the Python packages, lets the new
   code plan and install, and is then replaced.  A guard in a systemd unit of
   its own (ctl/update_guard.py) watches the restart and goes back: code,
   packages, dashboard and, when the release upgraded it, the database.
   One release ("new") follows the running one ("old"), and the owner asks for
   it once; other tasks and rows of the database are one value, `work`. *)
EXTENDS Naturals

CONSTANTS
  MaxTrouble,   \* commands that fail
  MaxReboots,   \* times the computer or the worker goes down
  MaxClaims     \* executions of the update's job
ASSUME SelfUpdateAssumption == {MaxTrouble, MaxReboots, MaxClaims} \subseteq Nat

VARIABLES
  release,  \* what the new release is like: it starts, it migrates the database
  disk,     \* the versions of the checkout, its packages, its dashboard and units
  db,       \* the control database: its schema, the update's job, other work
  copy,     \* the checkpoint taken before anything changes (pre-update.db)
  units,    \* what systemd keeps the two services at
  bounce,   \* the services a restart has still to stop
  api,      \* the version the dashboard runs, or "none"
  worker,   \* the worker: its version, its place in _update, its execution
  guard,    \* the newest guard: its place, what went wrong, whether the old worker
            \* lives; and whether an older one still watches what it put back
  result,   \* state/self-update.json
  told,     \* the owner was told to finish in a terminal, or that all is safe
  spent     \* the bounds used up

vars == <<release, disk, db, copy, units, bounce, api, worker, guard, result, told, spent>>

Versions == {"old", "new"}
JobStates == {"none", "queued", "running", "succeeded", "failed", "cancelled"}
Work == {"none", "queued", "done"}
Executing == {"check", "download", "assets", "packages", "plan", "undo_tree", "undo_both",
              "undo_packages", "install", "go_back", "watch_over", "report_failed",
              "report_done", "restart"}
GuardPlaces == {"none", "watch", "stop", "stopping", "judge", "copying", "code",
                "packages", "rebuild", "start", "watch_back", "done"}
Database == [schema : Versions, whole : BOOLEAN, job : JobStates, owner : 0..MaxClaims,
             cancel : BOOLEAN, work : Work]
NoWorker == [code |-> "none", pc |-> "idle", claim |-> 0, lost |-> FALSE, stopping |-> FALSE]

TypeOK ==
  /\ release \in [starts : BOOLEAN, migrates : BOOLEAN]
  /\ disk \in [tree : Versions, packages : Versions \cup {"mixed"}, built : Versions \cup {"mixed"}]
  /\ db \in Database /\ copy \in Database
  /\ units \in {"up", "down"} /\ bounce \subseteq {"api", "worker"}
  /\ api \in Versions \cup {"none"}
  /\ worker \in [code : Versions \cup {"none"}, pc : Executing \cup {"idle"},
                 claim : 0..MaxClaims, lost : BOOLEAN, stopping : BOOLEAN]
  /\ guard \in [pc : GuardPlaces, mode : {"none", "verify", "rollback"},
                waits : BOOLEAN, problem : BOOLEAN, older : {"gone", "watching"}]
  /\ result \in {"none", "verified", "rolled_back", "needs_attention"}
  /\ told \in {"nothing", "terminal", "safe"}
  /\ spent \in [trouble : 0..MaxTrouble, reboots : 0..MaxReboots, claims : 0..MaxClaims]

Init ==
  /\ release \in [starts : BOOLEAN, migrates : BOOLEAN]
  /\ disk = [tree |-> "old", packages |-> "old", built |-> "old"]
  /\ db = [schema |-> "old", whole |-> TRUE, job |-> "none", owner |-> 0, cancel |-> FALSE,
           work |-> "none"]
  /\ copy = [db EXCEPT !.whole = FALSE]
  /\ units = "up" /\ bounce = {} /\ api = "old"
  /\ worker = [NoWorker EXCEPT !.code = "old"]
  /\ guard = [pc |-> "none", mode |-> "none", waits |-> FALSE, problem |-> FALSE,
              older |-> "gone"]
  /\ result = "none" /\ told = "nothing"
  /\ spent = [trouble |-> 0, reboots |-> 0, claims |-> 0]

Trouble == spent.trouble < MaxTrouble /\ spent' = [spent EXCEPT !.trouble = @ + 1]
Fine == UNCHANGED spent
Queued == db.job = "queued"
Held == db.job = "running" /\ db.owner = worker.claim

-----------------------------------------------------------------------------
(* The dashboard. *)

(* The route refuses while anything else is active. *)
AskUpdate ==
  /\ api # "none" /\ db.job = "none" /\ db.work # "queued" /\ disk.tree = "old"
  /\ db' = [db EXCEPT !.job = "queued"]
  /\ UNCHANGED <<release, disk, copy, units, bounce, api, worker, guard, result, told, spent>>

(* Any other accepted request leaves a row. *)
Accept ==
  /\ api # "none" /\ db.work = "none"
  /\ db' = [db EXCEPT !.work = "queued"]
  /\ UNCHANGED <<release, disk, copy, units, bounce, api, worker, guard, result, told, spent>>

Cancel ==
  /\ api # "none" /\ db.job \in {"queued", "running"} /\ ~db.cancel
  /\ db' = IF Queued THEN [db EXCEPT !.job = "cancelled"] ELSE [db EXCEPT !.cancel = TRUE]
  /\ UNCHANGED <<release, disk, copy, units, bounce, api, worker, guard, result, told, spent>>

-----------------------------------------------------------------------------
(* The worker, in the order of _update. *)

(* A running job whose owner is gone is claimed again, from the start. *)
Claim ==
  /\ worker.code # "none" /\ worker.pc = "idle" /\ ~worker.stopping
  /\ Queued \/ (db.job = "running" /\ db.owner # worker.claim)
  /\ IF db.job = "running" /\ db.cancel
     THEN /\ db' = [db EXCEPT !.job = "cancelled", !.owner = 0]
          /\ UNCHANGED <<worker, spent>>
     ELSE /\ spent.claims < MaxClaims
          /\ spent' = [spent EXCEPT !.claims = @ + 1]
          /\ db' = [db EXCEPT !.job = "running", !.owner = spent.claims + 1]
          /\ worker' = [worker EXCEPT !.pc = "check", !.claim = spent.claims + 1, !.lost = FALSE]
  /\ UNCHANGED <<release, disk, copy, units, bounce, api, guard, result, told>>

RunOther ==
  /\ worker.code # "none" /\ worker.pc = "idle" /\ ~worker.stopping
  /\ db.work = "queued" /\ db.job \notin {"queued", "running"}
  /\ db' = [db EXCEPT !.work = "done"]
  /\ UNCHANGED <<release, disk, copy, units, bounce, api, worker, guard, result, told, spent>>

(* The heartbeat finds that the job is no longer this worker's. *)
LosesLease ==
  /\ worker.pc \in Executing /\ worker.pc # "restart" /\ ~Held /\ ~worker.lost
  /\ worker' = [worker EXCEPT !.lost = TRUE]
  /\ UNCHANGED <<release, disk, db, copy, units, bounce, api, guard, result, told, spent>>

(* job_guard.checkpoint: a lost lease stops it anywhere; a cancellation before the
   checkout only, for job_guard.uncancellable covers what follows and no
   checkpoint comes between it and the report, which a cancellation does not bar. *)
Cancelled == Held /\ db.cancel /\ worker.pc \in {"check", "download"}
Interrupted_Quietly ==  \* mutant: stops without acknowledging the cancellation
  /\ worker.pc \in Executing \ {"restart", "report_failed"}
  /\ worker.lost \/ Cancelled
  /\ worker' = [worker EXCEPT !.pc = "idle"]
  /\ UNCHANGED <<release, disk, db, copy, units, bounce, api, guard, result, told, spent>>

Interrupted ==
  /\ worker.pc \in Executing \ {"restart", "report_failed"}
  /\ worker.lost \/ Cancelled
  /\ worker' = [worker EXCEPT !.pc = "idle"]
  /\ db' = IF Cancelled THEN [db EXCEPT !.job = "cancelled", !.owner = 0] ELSE db
  /\ UNCHANGED <<release, disk, copy, units, bounce, api, guard, result, told, spent>>

At(pc) == worker.code # "none" /\ worker.pc = pc /\ ~worker.lost
Goes(pc) == worker' = [worker EXCEPT !.pc = pc]
(* transition refuses a job that is no longer this worker's. *)
Report(state) == db' = IF Held THEN [db EXCEPT !.job = state, !.owner = 0] ELSE db

(* _copy_database *)
Checkpoint == copy' = db
Check ==
  /\ At("check")
  /\ \/ disk.tree = "new" /\ Report("succeeded") /\ Goes("idle") /\ Fine /\ UNCHANGED copy
     \/ Trouble /\ Goes("report_failed") /\ UNCHANGED <<db, copy>>
     \/ disk.tree = "old" /\ Checkpoint /\ Goes("download") /\ Fine /\ UNCHANGED db
  /\ UNCHANGED <<release, disk, units, bounce, api, guard, result, told>>

Disk(field, value) == disk' = [disk EXCEPT ![field] = value]
StepUnchanged == UNCHANGED <<release, db, copy, units, bounce, api, result>>

Download ==  \* its first event is a checkpoint
  /\ At("download") /\ ~Cancelled
  /\ \/ Disk("tree", "new") /\ Goes("assets") /\ Fine
     \/ Trouble /\ Goes("report_failed") /\ UNCHANGED disk
  /\ StepUnchanged /\ UNCHANGED <<guard, told>>

Assets ==
  /\ At("assets")
  /\ (Goes("packages") /\ Fine) \/ (Goes("undo_tree") /\ Trouble)
  /\ StepUnchanged /\ UNCHANGED <<disk, guard, told>>

Packages ==
  /\ At("packages")
  /\ \/ Disk("packages", "new") /\ Goes("plan") /\ Fine
     \/ Disk("packages", "mixed") /\ Goes("undo_both") /\ Trouble
  /\ StepUnchanged /\ UNCHANGED <<guard, told>>

(* The new code's plan finds nothing that needs a terminal, or something. *)
Plan ==
  /\ At("plan") /\ Fine
  /\ Goes("install") \/ Goes("undo_both")
  /\ StepUnchanged /\ UNCHANGED <<disk, guard, told>>

UndoTree_CodeOnly ==  \* mutant: forgets that the packages changed
  /\ At("undo_tree") \/ At("undo_both")
  /\ \/ Disk("tree", "old") /\ Fine /\ UNCHANGED told
     \/ Trouble /\ told' = "terminal" /\ UNCHANGED disk
  /\ Goes("report_failed")
  /\ StepUnchanged /\ UNCHANGED guard

(* _restore *)
UndoTree ==
  /\ At("undo_tree") \/ At("undo_both")
  /\ \/ /\ Disk("tree", "old") /\ Fine /\ UNCHANGED told
        /\ Goes(IF worker.pc = "undo_both" THEN "undo_packages" ELSE "report_failed")
     \/ Trouble /\ told' = "terminal" /\ Goes("report_failed") /\ UNCHANGED disk
  /\ StepUnchanged /\ UNCHANGED guard

UndoPackages ==
  /\ At("undo_packages") /\ Goes("report_failed")
  /\ \/ Disk("packages", "old") /\ Fine /\ UNCHANGED told
     \/ Disk("packages", "mixed") /\ Trouble /\ told' = "terminal"
  /\ StepUnchanged /\ UNCHANGED guard

Install ==
  /\ At("install")
  /\ \/ Disk("built", "new") /\ Goes("watch_over") /\ Fine
     \/ Disk("built", "mixed") /\ Goes("go_back") /\ Trouble
  /\ StepUnchanged /\ UNCHANGED <<guard, told>>

(* _start_guard, each time a unit of its own: a second execution, which the
   services an older guard has started again begin, does not wait for it. *)
Launch(mode) ==
  /\ guard.pc \in {"none", "done", "watch_back"}
  /\ guard' = [pc |-> IF mode = "verify" THEN "watch" ELSE "stop", mode |-> mode,
               waits |-> TRUE, problem |-> FALSE,
               older |-> IF guard.pc = "watch_back" THEN "watching" ELSE guard.older]
(* A unit that does not start is reported, with the way out.  That its files
   cannot be written is an OSError, which nothing but the worker's last
   containment catches: "Worker stopped safely". *)
NoGuard == Trouble /\ told' \in {"terminal", "safe"} /\ Goes("report_failed") /\ UNCHANGED guard
StartGuard ==
  /\ \/ At("go_back") /\ Launch("rollback") /\ Goes("report_failed") /\ Fine /\ UNCHANGED told
     \/ At("watch_over") /\ Launch("verify") /\ Goes("report_done") /\ Fine /\ UNCHANGED told
     \/ (At("go_back") \/ At("watch_over")) /\ NoGuard
  /\ StepUnchanged /\ UNCHANGED disk

ReportFailed ==
  /\ worker.pc = "report_failed" /\ Report("failed") /\ Goes("idle")
  /\ UNCHANGED <<release, disk, copy, units, bounce, api, guard, result, told, spent>>

ReportDone ==
  /\ At("report_done") /\ Report("succeeded")
  /\ Goes(IF Held THEN "restart" ELSE "idle")
  /\ UNCHANGED <<release, disk, copy, units, bounce, api, guard, result, told, spent>>

(* systemctl restart: a service that does not run is only started. *)
Restart ==
  /\ worker.pc = "restart" /\ Goes("idle")
  /\ \/ bounce' = {"worker"} \cup (IF api = "none" THEN {} ELSE {"api"}) /\ Fine
     \/ UNCHANGED bounce /\ Trouble
  /\ UNCHANGED <<release, disk, db, copy, units, api, guard, result, told>>

-----------------------------------------------------------------------------
(* systemd.  A stopping worker finishes its job first. *)

Leaving(unit) == unit \in bounce \/ units = "down"
ApiStops ==
  /\ api # "none" /\ Leaving("api")
  /\ api' = "none" /\ bounce' = bounce \ {"api"}
  /\ UNCHANGED <<release, disk, db, copy, units, worker, guard, result, told, spent>>

WorkerStops ==
  /\ worker.code # "none" /\ Leaving("worker")
  /\ IF worker.pc = "idle"
     THEN /\ worker' = NoWorker /\ bounce' = bounce \ {"worker"}
          /\ guard' = [guard EXCEPT !.waits = FALSE]
     ELSE ~worker.stopping /\ worker' = [worker EXCEPT !.stopping = TRUE]
          /\ UNCHANGED <<bounce, guard>>
  /\ UNCHANGED <<release, disk, db, copy, units, api, result, told, spent>>

(* store/db.py: opening the database migrates it; older code refuses a newer
   one.  A release that does not start may have migrated it before it died. *)
Opens(version) == db.whole /\ (version = "old" => db.schema = "old")
Migrated(version) ==
  IF version = "new" /\ release.migrates THEN [db EXCEPT !.schema = "new"] ELSE db
(* Packages of another version may or may not do. *)
Starts(version) == version = "new" => release.starts
Outcomes(version) ==
  IF Starts(version) THEN {version} \cup (IF disk.packages = version THEN {} ELSE {"none"})
  ELSE {"none"}

StartApi ==
  /\ api = "none" /\ units = "up" /\ "api" \notin bounce /\ Opens(disk.tree)
  /\ db' = Migrated(disk.tree) /\ api' \in Outcomes(disk.tree)
  /\ UNCHANGED <<release, disk, copy, units, bounce, worker, guard, result, told, spent>>

StartWorker ==
  /\ worker.code = "none" /\ units = "up" /\ "worker" \notin bounce /\ Opens(disk.tree)
  /\ db' = Migrated(disk.tree)
  /\ \E code \in Outcomes(disk.tree) : worker' = [NoWorker EXCEPT !.code = code]
  /\ UNCHANGED <<release, disk, copy, units, bounce, api, guard, result, told, spent>>

(* The guard's unit is transient: a reboot ends it, and starts the services. *)
Down == spent.reboots < MaxReboots /\ spent' = [spent EXCEPT !.reboots = @ + 1]
Reboot ==
  /\ Down
  /\ api' = "none" /\ worker' = NoWorker /\ units' = "up" /\ bounce' = {}
  /\ guard' = [guard EXCEPT !.pc = IF @ = "none" THEN "none" ELSE "done", !.waits = FALSE,
                            !.older = "gone"]
  /\ UNCHANGED <<release, disk, db, copy, result, told>>

WorkerDies ==
  /\ Down /\ worker.code # "none"
  /\ worker' = NoWorker /\ bounce' = bounce \ {"worker"}
  /\ guard' = [guard EXCEPT !.waits = FALSE]
  /\ UNCHANGED <<release, disk, db, copy, units, api, result, told>>

-----------------------------------------------------------------------------
(* The guard (update_guard.py). *)

GuardAt(pc) == guard.pc = pc
GuardGoes(pc) == guard' = [guard EXCEPT !.pc = pc]
GuardUnchanged == UNCHANGED <<release, bounce, api, worker, told>>
(* _audit and _record: the update's job ends failed, whatever it was. *)
Closes(state) ==
  /\ result' = state
  /\ db' = IF db.whole THEN [db EXCEPT !.job = "failed", !.owner = 0] ELSE db
Settles(state) == GuardGoes("done") /\ Closes(state)
Blocked == Settles("needs_attention") /\ UNCHANGED <<disk, copy>>

Steady_AnyWorker == bounce = {} /\ api # "none" /\ worker.code # "none"  \* mutant: the old worker counts
(* started: both services answer, and the worker that updated is gone. *)
Answering == bounce = {} /\ api # "none" /\ worker.code # "none"
Steady == ~guard.waits /\ Answering
Watch ==
  /\ GuardAt("watch")
  /\ \/ Steady /\ result' = "verified" /\ GuardGoes("done")
     \/ GuardGoes("stop") /\ UNCHANGED result
  /\ GuardUnchanged /\ UNCHANGED <<disk, db, copy, units, spent>>

Stop ==
  /\ GuardAt("stop")
  /\ \/ units' = "down" /\ GuardGoes("stopping") /\ Fine /\ UNCHANGED <<disk, db, copy, result>>
     \/ Trouble /\ Blocked /\ UNCHANGED units
  /\ GuardUnchanged

Stopped ==
  /\ GuardAt("stopping") /\ api = "none" /\ worker.code = "none"
  /\ GuardGoes("judge")
  /\ GuardUnchanged /\ UNCHANGED <<disk, db, copy, units, result, spent>>

CheckpointSafe_Always == TRUE  \* mutant: puts the copy back over later work
(* checkpoint_safe: nothing but this update's own progress would be lost.  A
   migration that alters a table is not safe either. *)
CheckpointSafe == db.work = copy.work
Judge ==
  /\ GuardAt("judge")
  /\ \/ Trouble /\ Blocked
     \/ db.schema # copy.schema /\ Blocked /\ Fine
     \/ /\ db.schema # copy.schema /\ CheckpointSafe
        /\ db' = [db EXCEPT !.whole = FALSE] /\ GuardGoes("copying")
        /\ Fine /\ UNCHANGED <<disk, copy, result>>
     \/ db.schema = copy.schema /\ GuardGoes("code") /\ Fine /\ UNCHANGED <<disk, db, copy, result>>
  /\ GuardUnchanged /\ UNCHANGED units

(* A copy that fails ends the guard's process, with no word. *)
PutBack ==
  /\ GuardAt("copying")
  /\ \/ db' = copy /\ GuardGoes("code") /\ Fine
     \/ Trouble /\ GuardGoes("done") /\ UNCHANGED db
  /\ GuardUnchanged /\ UNCHANGED <<disk, copy, units, result>>

(* One command of the way back; after a problem nothing is rebuilt or started,
   but the packages are still tried. *)
BackStep(at, field, value, then) ==
  /\ GuardAt(at)
  /\ \/ Disk(field, value) /\ GuardGoes(then) /\ Fine
     \/ /\ Disk(field, IF field = "tree" THEN disk.tree ELSE "mixed") /\ Trouble
        /\ guard' = [guard EXCEPT !.pc = then, !.problem = TRUE]
  /\ GuardUnchanged /\ UNCHANGED <<db, copy, units, result>>
CodeBack == BackStep("code", "tree", "old", "packages")
PackagesBack == BackStep("packages", "packages", disk.tree, "rebuild")
Rebuilt == ~guard.problem /\ BackStep("rebuild", "built", disk.tree, "start")

StartBack ==
  /\ GuardAt("start") /\ ~guard.problem
  /\ \/ units' = "up" /\ GuardGoes("watch_back") /\ Fine
     \/ Trouble /\ guard' = [guard EXCEPT !.problem = TRUE] /\ UNCHANGED units
  /\ GuardUnchanged /\ UNCHANGED <<disk, db, copy, result>>

WatchBack ==
  /\ \/ GuardAt("watch_back") /\ (Settles("needs_attention") \/ (Steady /\ Settles("rolled_back")))
     \/ guard.pc \in {"rebuild", "start"} /\ guard.problem /\ Settles("needs_attention")
  /\ GuardUnchanged /\ UNCHANGED <<disk, copy, units, spent>>

(* An older guard takes whatever answers for what it put back. *)
OlderWatches ==
  /\ guard.older = "watching" /\ guard' = [guard EXCEPT !.older = "gone"]
  /\ Closes("needs_attention") \/ (Answering /\ Closes("rolled_back"))
  /\ GuardUnchanged /\ UNCHANGED <<disk, copy, units, spent>>

WorkerSteps ==
  \/ Claim \/ RunOther \/ LosesLease \/ Interrupted \/ Check \/ Download \/ Assets \/ Packages
  \/ Plan \/ UndoTree \/ UndoPackages \/ Install \/ StartGuard \/ ReportFailed \/ ReportDone
  \/ Restart
GuardSteps ==
  \/ Watch \/ Stop \/ Stopped \/ Judge \/ PutBack \/ CodeBack \/ PackagesBack \/ Rebuilt
  \/ StartBack \/ WatchBack \/ OlderWatches
Next ==
  \/ AskUpdate \/ Accept \/ Cancel \/ WorkerSteps \/ GuardSteps
  \/ ApiStops \/ WorkerStops \/ StartApi \/ StartWorker \/ Reboot \/ WorkerDies

Spec == Init /\ [][Next]_vars
(* The worker and the guard keep going, and systemd stops what it is told to. *)
FairSpec ==
  /\ Spec /\ WF_vars(WorkerSteps) /\ WF_vars(GuardSteps)
  /\ WF_vars(ApiStops) /\ WF_vars(WorkerStops)

-----------------------------------------------------------------------------
(* What the owner had accepted is never lost: it stays in the database, or in
   the checkpoint while that is being put back (_blocked: "Restoring it could
   replay or lose work"). *)
Rank(work) == CASE work = "none" -> 0 [] work = "queued" -> 1 [] work = "done" -> 2
Kept(database, checkpoint) == IF database.whole THEN database.work ELSE checkpoint.work
WorkKept == [][Rank(Kept(db', copy')) >= Rank(Kept(db, copy))]_vars

(* An update that ends in its first execution leaves one version: the new one
   when it succeeded and was verified, else the old one; unless the owner was
   told to finish in a terminal, or the guard's files could not be written, which
   the worker reports as stopped safely (StoppedSafely).  It holds whatever else
   fails and whenever the owner cancels, if no computer or worker goes down; an
   update whose database the guard could not put back is not over. *)
Over == /\ db.whole /\ db.job \in {"succeeded", "failed", "cancelled"}
        /\ guard.pc \in {"none", "done"} /\ guard.older = "gone" /\ worker.pc = "idle"
Only(version) == disk.tree = version /\ disk.packages = version /\ disk.built = version
EndsWhole ==
  (Over /\ spent.claims = 1 /\ spent.reboots = 0 /\ told = "nothing"
     /\ result # "needs_attention")
    => Only(IF db.job = "succeeded" THEN "new" ELSE "old")

(* What the result file says is so when it is written: "verified" only of the
   new release's own services (a dashboard that outlives a worker's crash is not
   told apart), "rolled_back" only of the old ones on a database they can read,
   unless the job that database brought back was claimed again meanwhile. *)
Serving(version) == api = version /\ worker.code = version
ResultIsTrue ==
  [][result' # result =>
       /\ result' = "verified" =>
            worker.code = "new" /\ (spent.reboots = 0 => Serving("new"))
       /\ (result' = "rolled_back" /\ spent.claims = 1) =>
            Serving("old") /\ disk.tree = "old" /\ db'.schema = "old" /\ db'.whole]_vars

(* A guard starts the services again only over one whole version: every part of
   the way back succeeded, on a database the old code can read.  After anything
   it refused or failed at they stay stopped. *)
StartsWhatItRestored ==
  [][(units = "down" /\ units' = "up" /\ spent'.reboots = spent.reboots)
       => Only("old") /\ db.whole /\ db.schema = "old"]_vars

(* While nothing goes down, an update that was claimed ends. *)
UpdateEnds == (db.job = "running" /\ spent.reboots = 0) ~> (db.job # "running" \/ spent.reboots > 0)
(* Every guard ends: with a result, unless it dies while it puts the database back. *)
Guarding == guard.pc \notin {"none", "done"} \/ guard.older = "watching"
GuardEnds == Guarding ~> ~Guarding

(* The way back puts nothing at risk: it loses no accepted work, and starts only
   what it has put back whole. *)
WayBackIsSafe == []TypeOK /\ WorkKept /\ StartsWhatItRestored

(* Neither the update nor its guard waits for ever. *)
BothEnd == UpdateEnds /\ GuardEnds

(* update_guard.py: going back "returns the checkout and its Python packages to
   the version that was running".  The code restarts the worker on the restored
   job first, which updates again until the guard settles it. *)
WentBack == result = "rolled_back" /\ Over => Only("old")

(* worker.py ends an update whose guard could not be written with "Worker stopped
   safely": the new version, or a part of it, is on the disk, and runs at the next
   restart with nobody to watch over it. *)
StoppedSafely == told = "safe" /\ Over => Only("old")

=============================================================================
