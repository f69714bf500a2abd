----------------------------- MODULE AppChange -----------------------------
(***************************************************************************)
(* The jobs that change one installed app and can put it back:             *)
(* ctl/lifecycle/restore.py, update.py and maintenance.py, with the note   *)
(* of in_progress.py, the deployment copies of deployments.py and the      *)
(* stops and starts of app_control.py.                                     *)
(*                                                                         *)
(* The app has an older release "r1" and the approved one "r2".  A folder  *)
(* of the app is in one of four places on the data disk.  What a folder    *)
(* holds is abstracted to where it came from: "old", the data at the       *)
(* start, "b1" and "b2", backups taken under each release, and "new", data *)
(* release r2 has migrated or made.  A start of r2 on data of r1 migrates  *)
(* it, all of it if the start succeeds and any part of it if not.          *)
(*                                                                         *)
(* At most one job is active on the app (JobQueue).  A crash of the worker *)
(* keeps the disk, the note and the job row and loses what the code holds  *)
(* in memory: pc, todo and task.                                           *)
(***************************************************************************)
EXTENDS Naturals, FiniteSets

CONSTANTS
  Folders,   \* the app's data folders, over both releases
  MaxJobs    \* bound: jobs requested

ASSUME FoldersAssumption == IsFiniteSet(Folders) /\ Folders # {}
ASSUME BoundAssumption == MaxJobs \in Nat

VARIABLES
  added,     \* the folders only r2's deployment uses
  disk,      \* what each place holds of each folder
  deploy,    \* the runtime project: its files and its release record
  bundles,   \* the newest deployment copy of each release
  app,       \* whether its containers run
  wanted,    \* control state: whether the household expects it to run
  note,      \* the in-progress note
  job,       \* the newest job on the app
  jobs,      \* jobs requested so far
  pc, todo,  \* the worker's place in the code, the folders its loop has left
  task,      \* the note the worker works from
  before     \* history: live data and deployment when the note was made

stable == <<added, wanted>>
vars == <<added, disk, deploy, bundles, app, wanted, note, job, jobs, pc, todo,
          task, before>>

Releases == {"r1", "r2"}
Backups == {"b1", "b2"}
Contents == {"none", "old", "new"} \union Backups
Places == {"live", "original", "restoring", "discard"}
Deployments == [files : Releases, release : Releases]
NoDeployment == [files |-> "none", release |-> "none"]
NoData == [f \in Folders |-> "none"]
NoNote == [kind |-> "none", folders |-> {}, absent |-> {}, bundle |-> NoDeployment,
           wasRunning |-> TRUE, applied |-> FALSE, snapshot |-> NoData]
Notes == [kind : {"none", "restore", "update"}, folders : SUBSET Folders,
          absent : SUBSET Folders, bundle : Deployments \union {NoDeployment},
          wasRunning : BOOLEAN, applied : BOOLEAN, snapshot : [Folders -> Contents]]
Actions == {"restore", "update", "recover", "keep_update"}
Jobs == [action : Actions, backup : Backups, reclaimed : BOOLEAN,
         state : {"queued", "running", "succeeded", "failed"}]
Steps == {"idle", "unpack", "note", "stop", "aside", "in", "switch", "start", "clear",
          "housekeep", "back_stop", "back_swap", "back_deploy", "back_clear",
          "back_start", "capture", "render", "revert", "revert_stopped", "revert_start",
          "up_stop", "apply", "up_write", "up_start", "up_stop_again", "up_clear",
          "undo_stop", "undo_deploy", "undo_unpack", "undo_aside", "undo_in",
          "undo_clear", "undo_start", "keep_write", "keep_start", "keep_stop",
          "keep_clear"}

Uses(r) == IF r = "r1" THEN Folders \ added ELSE Folders
ReleaseOf(c) == IF c \in {"old", "b1"} THEN "r1" ELSE "r2"
Holds(b) == Uses(ReleaseOf(b))

Init ==
  /\ added \in (SUBSET Folders) \ {Folders}
  /\ \E kept \in (SUBSET (Folders \ added)) \ {{}} :
       disk = [p \in Places |-> [f \in Folders |->
                 IF p = "live" /\ f \in kept THEN "old" ELSE "none"]]
  /\ deploy = [files |-> "r1", release |-> "r1"]
  /\ bundles = [r \in Releases |-> NoDeployment]
  /\ wanted \in BOOLEAN
  /\ app = wanted
  /\ note = NoNote
  /\ job = [action |-> "recover", backup |-> "b1", reclaimed |-> FALSE, state |-> "failed"]
  /\ jobs = 0
  /\ pc = "idle"
  /\ todo = {}
  /\ task = NoNote
  /\ before = [live |-> NoData, deploy |-> NoDeployment]

------------------------------------------------------------------------------
(* The data disk, the containers and the deployment.                         *)

Present(p) == {f \in Folders : disk[p][f] # "none"}

\* restore._wipe: the folders go, or some stay and that is only logged.
Wiped(places, names, kept) ==
  [p \in Places |-> [f \in Folders |->
     IF p \in places /\ f \in names \ kept THEN "none" ELSE disk[p][f]]]

\* backups.restore_folder for each of the names, into new folders.
Unpacked(d, names, saved) ==
  [d EXCEPT !["restoring"] = [f \in Folders |-> IF f \in names THEN saved[f] ELSE @[f]]]

\* os.rename: a folder that is there with content cannot be renamed over.
Renamed(f, from, to) ==
  [disk EXCEPT ![to][f] = disk[from][f], ![from][f] = "none"]

\* app_control.start: what a start may do to the live folders.  A start that
\* is not healthy may have migrated some of them.
Stale(r) ==
  {f \in Uses(r) : r = "r2" /\ \/ disk["live"][f] = "none" /\ f \in added
                               \/ disk["live"][f] # "none" /\ ReleaseOf(disk["live"][f]) = "r1"}
Migrated(some) ==
  [disk EXCEPT !["live"] = [f \in Folders |-> IF f \in some THEN "new" ELSE @[f]]]

StartHealthy ==
  /\ app' = TRUE
  /\ disk' = Migrated(Stale(deploy.release))
StartUnhealthy ==
  /\ app' \in BOOLEAN
  /\ \E some \in SUBSET Stale(deploy.release) : disk' = Migrated(some)

\* deployments.restore: all of it, or a part of the files is in place.
PartOf(bundle) == {d \in Deployments : /\ d.files \in {deploy.files, bundle.files}
                                       /\ d.release \in {deploy.release, bundle.release}}

\* restore.leftovers: the installed deployment decides where to look.
Leftovers == Uses(deploy.files) \intersect Present("original")
Blocking == note # NoNote \/ Leftovers # {}

EndJob(state) ==
  /\ job' = [job EXCEPT !.state = state]
  /\ pc' = "idle"
  /\ todo' = {}
  /\ task' = NoNote

Goto(step) ==
  /\ pc' = step
  /\ UNCHANGED <<job, todo, task>>

Loop(step, names) ==
  /\ pc' = step
  /\ todo' = names
  /\ UNCHANGED <<job, task>>

\* The loops take the folders in one fixed order.
Turn == CHOOSE f \in todo : TRUE
NextTurn(again, step) ==
  /\ todo' = todo \ {Turn}
  /\ pc' = IF todo = {Turn} THEN step ELSE again
  /\ UNCHANGED <<job, task>>

------------------------------------------------------------------------------
(* Jobs.                                                                     *)

Active == job.state \in {"queued", "running"}

\* The API checks the note before it queues the job; the worker cannot rely
\* on that check, so any action may be queued.
Request ==
  /\ ~Active
  /\ jobs < MaxJobs
  /\ jobs' = jobs + 1
  /\ \E action \in Actions, backup \in Backups :
       /\ action # "restore" => backup = "b1"
       /\ job' = [action |-> action, backup |-> backup, reclaimed |-> FALSE, state |-> "queued"]
  /\ UNCHANGED <<stable, disk, deploy, bundles, app, note, pc, todo, task, before>>

\* The worker dies; the lease of its job runs out and the job is claimed again.
Crash ==
  /\ job.state = "running"
  /\ job' = [job EXCEPT !.state = "queued", !.reclaimed = TRUE]
  /\ pc' = "idle"
  /\ todo' = {}
  /\ task' = NoNote
  /\ UNCHANGED <<stable, disk, deploy, bundles, app, note, jobs, before>>

\* _recover without a note: the folders that were kept aside make one.
LeftoverNote == [NoNote EXCEPT !.kind = "restore", !.folders = Leftovers]
Found == IF note # NoNote THEN note ELSE LeftoverNote

FirstStep ==
  CASE job.action = "restore" -> "unpack"
    [] job.action = "update" -> "capture"
    [] job.action = "recover" -> IF Found.kind = "update" THEN "undo_stop" ELSE "back_stop"
    [] job.action = "keep_update" -> "keep_write"

Refused ==
  \/ job.reclaimed
  \/ job.action \in {"restore", "update"} /\ Blocking
  \/ job.action = "update" /\ deploy.release = "r2"
  \/ job.action \in {"recover", "keep_update"} /\ ~Blocking
  \/ job.action = "keep_update" /\ ~(Found.kind = "update" /\ Found.applied)

Execute ==
  /\ job.state = "queued"
  /\ \/ /\ Refused
        /\ EndJob("failed")
     \/ /\ ~Refused
        /\ job' = [job EXCEPT !.state = "running"]
        /\ pc' = FirstStep
        /\ task' = IF job.action \in {"recover", "keep_update"} THEN Found ELSE NoNote
        /\ UNCHANGED todo
  /\ UNCHANGED <<stable, disk, deploy, bundles, app, note, jobs, before>>

------------------------------------------------------------------------------
(* restore.restore                                                           *)

Target == ReleaseOf(job.backup)
\* Mutant: a backup is always restored under the installed release.
Switches_Never == FALSE
Switches == Target # deploy.release
KeptBundle == IF Switches THEN bundles[Target] ELSE NoDeployment

\* plan: every folder of the deployment that will run is in the backup, and
\* none that is not a folder of it.
Layout == IF KeptBundle # NoDeployment THEN Uses(KeptBundle.files) ELSE Uses(deploy.files)
Incomplete == (Layout \ Holds(job.backup)) \intersect Present("live")
Planned == Holds(job.backup) \subseteq Layout /\ Incomplete = {}

Backup == [f \in Folders |-> job.backup]

\* What the failure leaves of the unpacked copy is wiped before the next use.
Unpack ==
  /\ pc = "unpack"
  /\ \/ /\ Planned
        /\ \E kept \in SUBSET Present("discard") :
             disk' = Unpacked(Wiped({"discard"}, Holds(job.backup), kept), Holds(job.backup), Backup)
        /\ Goto("note")
     \/ /\ \E some \in SUBSET (IF Planned THEN Holds(job.backup) ELSE {}) :
             disk' = Unpacked(disk, some, Backup)
        /\ EndJob("failed")
  /\ UNCHANGED <<stable, deploy, bundles, app, note, jobs, before>>

\* deployments.capture and in_progress.begin
Begin(n, step) ==
  /\ bundles' = [bundles EXCEPT ![deploy.release] = deploy]
  /\ note' = n
  /\ task' = n
  /\ before' = [live |-> disk["live"], deploy |-> deploy]
  /\ pc' = step
  /\ UNCHANGED <<stable, disk, deploy, app, job, jobs, todo>>

NoteRestore ==
  /\ pc = "note"
  /\ Begin([NoNote EXCEPT !.kind = "restore", !.folders = Holds(job.backup),
                          !.absent = Holds(job.backup) \ Present("live"),
                          !.bundle = deploy, !.wasRunning = wanted], "stop")

StopForRestore ==
  /\ pc = "stop"
  /\ \/ /\ app' = (app /\ ~wanted)
        /\ Loop("aside", task.folders)
     \/ /\ wanted
        /\ app' \in {app, FALSE}
        /\ Goto("back_stop")
  /\ UNCHANGED <<stable, disk, deploy, bundles, note, jobs, before>>

\* A rename over a folder that is there is refused; any rename may fail.
SwapAside ==
  /\ pc = "aside"
  /\ \/ /\ disk["live"][Turn] # "none" => disk["original"][Turn] = "none"
        /\ disk' = IF disk["live"][Turn] = "none" THEN disk ELSE Renamed(Turn, "live", "original")
        /\ Goto("in")
     \/ /\ Goto("back_stop")
        /\ UNCHANGED disk
  /\ UNCHANGED <<stable, deploy, bundles, app, note, jobs, before>>

SwapIn ==
  /\ pc = "in"
  /\ \/ /\ disk' = Renamed(Turn, "restoring", "live")
        /\ NextTurn("aside", "switch")
     \/ /\ Goto("back_stop")
        /\ UNCHANGED disk
  /\ UNCHANGED <<stable, deploy, bundles, app, note, jobs, before>>

\* _switch, which may fail part-way.
SwitchRelease ==
  /\ pc = "switch"
  /\ \/ /\ deploy' = IF ~Switches THEN deploy
                     ELSE IF KeptBundle = NoDeployment THEN [deploy EXCEPT !.release = Target]
                     ELSE KeptBundle
        /\ Goto(IF wanted THEN "start" ELSE "clear")
     \/ /\ Switches
        /\ deploy' \in IF KeptBundle = NoDeployment THEN {deploy} ELSE PartOf(KeptBundle)
        /\ Goto("back_stop")
  /\ UNCHANGED <<stable, disk, bundles, app, note, jobs, before>>

StartRestored ==
  /\ pc = "start"
  /\ \/ StartHealthy /\ Goto("clear")
     \/ StartUnhealthy /\ Goto("back_stop")
  /\ UNCHANGED <<stable, deploy, bundles, note, jobs, before>>

\* Mutant: the note is still there when the originals go.
ClearRestored_Late ==
  /\ pc = "clear"
  /\ Goto("housekeep")
  /\ UNCHANGED <<stable, disk, deploy, bundles, app, note, jobs, before>>

ClearRestored ==
  /\ pc = "clear"
  /\ note' = NoNote
  /\ Goto("housekeep")
  /\ UNCHANGED <<stable, disk, deploy, bundles, app, jobs, before>>

\* The originals are wiped; what stays is only logged.
Housekeep ==
  /\ pc = "housekeep"
  /\ \E kept \in SUBSET task.folders :
       disk' = Wiped({"original"}, task.folders, kept)
  /\ EndJob("succeeded")
  /\ UNCHANGED <<stable, deploy, bundles, app, note, jobs, before>>

------------------------------------------------------------------------------
(* restore.put_back                                                          *)

\* PutBackFailed: the note stays.
GiveUp == EndJob("failed")
PutBack == EndJob(IF job.action = "recover" THEN "succeeded" ELSE "failed")

BackStop ==
  /\ pc = "back_stop"
  /\ \/ /\ app' = FALSE
        /\ \E kept \in SUBSET Present("discard") : disk' = Wiped({"discard"}, task.folders, kept)
        /\ Loop("back_swap", task.folders)
     \/ /\ app' \in {app, FALSE}
        /\ GiveUp
        /\ UNCHANGED disk
  /\ UNCHANGED <<stable, deploy, bundles, note, jobs, before>>

\* Mutant: a folder that did not exist before the restore stays.
MovesOut_Originals(f) == disk["live"][f] # "none" /\ disk["original"][f] # "none"

\* The folder is moved out of the way if an original, or nothing, belongs there.
MovesOut(f) ==
  /\ disk["live"][f] # "none"
  /\ disk["original"][f] # "none" \/ f \in task.absent

BackSwap ==
  /\ pc = "back_swap"
  /\ \/ /\ MovesOut(Turn)
        /\ disk["discard"][Turn] = "none"
        /\ disk' = Renamed(Turn, "live", "discard")
        /\ UNCHANGED <<pc, todo, job, task>>
     \/ /\ ~MovesOut(Turn)
        /\ disk' = IF disk["original"][Turn] = "none" THEN disk
                   ELSE Renamed(Turn, "original", "live")
        /\ NextTurn("back_swap", "back_deploy")
     \/ /\ GiveUp
        /\ UNCHANGED disk
  /\ UNCHANGED <<stable, deploy, bundles, app, note, jobs, before>>

BackDeploy ==
  /\ pc = "back_deploy"
  /\ \/ /\ deploy' = IF task.bundle = NoDeployment THEN deploy ELSE task.bundle
        /\ Goto("back_clear")
     \/ /\ task.bundle # NoDeployment
        /\ deploy' \in PartOf(task.bundle)
        /\ GiveUp
  /\ UNCHANGED <<stable, disk, bundles, app, note, jobs, before>>

BackClear ==
  /\ pc = "back_clear"
  /\ note' = NoNote
  /\ \E kept \in SUBSET task.folders :
       disk' = Wiped({"discard", "restoring"}, task.folders, kept)
  /\ Goto("back_start")
  /\ UNCHANGED <<stable, deploy, bundles, app, jobs, before>>

BackStart ==
  /\ pc = "back_start"
  /\ \/ task.wasRunning /\ (StartHealthy \/ StartUnhealthy)
     \/ ~task.wasRunning /\ UNCHANGED <<app, disk>>
  /\ PutBack
  /\ UNCHANGED <<stable, deploy, bundles, note, jobs, before>>

------------------------------------------------------------------------------
(* update.update                                                             *)

\* The images are downloaded, the deployment copied and the note made.
Capture ==
  /\ pc = "capture"
  /\ \/ Begin([NoNote EXCEPT !.kind = "update", !.bundle = deploy, !.wasRunning = wanted], "render")
     \/ /\ EndJob("failed")
        /\ UNCHANGED <<stable, disk, deploy, bundles, app, note, jobs, before>>

Render ==
  /\ pc = "render"
  /\ \/ deploy' = [deploy EXCEPT !.files = "r2"] /\ Goto("up_stop")
     \/ deploy' \in {deploy, [deploy EXCEPT !.files = "r2"]} /\ Goto("revert")
  /\ UNCHANGED <<stable, disk, bundles, app, note, jobs, before>>

\* app_control.stop and backups.snapshot; an app without folders has no backup.
StopForUpdate ==
  /\ pc = "up_stop"
  /\ \/ app' = FALSE /\ Goto("apply")
     \/ app' \in {app, FALSE} /\ Goto("revert_stopped")
  /\ UNCHANGED <<stable, disk, deploy, bundles, note, jobs, before>>

\* Nothing was updated: the deployment goes back and the note goes.
Revert ==
  /\ pc \in {"revert", "revert_stopped"}
  /\ \/ /\ deploy' = task.bundle
        /\ note' = NoNote
        /\ IF pc = "revert_stopped" /\ wanted THEN Goto("revert_start") ELSE EndJob("failed")
     \/ /\ deploy' \in PartOf(task.bundle)
        /\ EndJob("failed")
        /\ UNCHANGED note
  /\ UNCHANGED <<stable, disk, bundles, app, jobs, before>>

RevertStart ==
  /\ pc = "revert_start"
  /\ StartHealthy \/ StartUnhealthy
  /\ EndJob("failed")
  /\ UNCHANGED <<stable, deploy, bundles, note, jobs, before>>

\* The rendered files decide which folders the backup took.
Saved == [f \in Folders |-> IF f \in Uses(deploy.files) THEN disk["live"][f] ELSE "none"]

Apply ==
  /\ pc = "apply"
  /\ note' = [note EXCEPT !.applied = TRUE, !.snapshot = Saved]
  /\ task' = note'
  /\ pc' = "up_write"
  /\ UNCHANGED <<stable, disk, deploy, bundles, app, job, jobs, todo, before>>

WriteTarget ==
  /\ pc = "up_write"
  /\ deploy' = [deploy EXCEPT !.release = "r2"]
  /\ Goto("up_start")
  /\ UNCHANGED <<stable, disk, bundles, app, note, jobs, before>>

StartUpdated ==
  /\ pc = "up_start"
  /\ \/ StartHealthy /\ Goto(IF wanted THEN "up_clear" ELSE "up_stop_again")
     \/ StartUnhealthy /\ Goto("undo_stop")
  /\ UNCHANGED <<stable, deploy, bundles, note, jobs, before>>

\* An app that was stopped is stopped again; a failure here ends the job.
StopAgain ==
  /\ pc \in {"up_stop_again", "keep_stop"}
  /\ \/ app' = FALSE /\ Goto(IF pc = "keep_stop" THEN "keep_clear" ELSE "up_clear")
     \/ app' \in {app, FALSE} /\ EndJob("failed")
  /\ UNCHANGED <<stable, disk, deploy, bundles, note, jobs, before>>

ClearUpdated ==
  /\ pc \in {"up_clear", "keep_clear"}
  /\ note' = NoNote
  /\ EndJob("succeeded")
  /\ UNCHANGED <<stable, disk, deploy, bundles, app, jobs, before>>

------------------------------------------------------------------------------
(* update.undo and update.keep                                               *)

Snapshotted == {f \in Folders : task.snapshot[f] # "none"}

UndoStop ==
  /\ pc = "undo_stop"
  /\ \/ app' = FALSE /\ Goto("undo_deploy")
     \/ app' \in {app, FALSE} /\ GiveUp
  /\ UNCHANGED <<stable, disk, deploy, bundles, note, jobs, before>>

UndoDeploy ==
  /\ pc = "undo_deploy"
  /\ \/ deploy' = task.bundle /\ Goto(IF task.applied THEN "undo_unpack" ELSE "undo_clear")
     \/ deploy' \in PartOf(task.bundle) /\ GiveUp
  /\ UNCHANGED <<stable, disk, bundles, app, note, jobs, before>>

\* plan for the backup of the update, and the deployment it goes back to.
UndoPlanned ==
  /\ Snapshotted \subseteq Uses(deploy.files)
  /\ (Uses(deploy.files) \ Snapshotted) \intersect Present("live") = {}

UndoUnpack ==
  /\ pc = "undo_unpack"
  /\ \/ /\ UndoPlanned
        /\ \E kept \in SUBSET Present("original") :
             disk' = Unpacked(Wiped({"original"}, Snapshotted, kept), Snapshotted, task.snapshot)
        /\ Loop("undo_aside", Snapshotted)
     \/ /\ \E some \in SUBSET (IF UndoPlanned THEN Snapshotted ELSE {}) :
             disk' = Unpacked(disk, some, task.snapshot)
        /\ GiveUp
  /\ UNCHANGED <<stable, deploy, bundles, app, note, jobs, before>>

\* The folder set aside by an earlier undo is wiped before the rename.
UndoAside ==
  /\ pc = "undo_aside"
  /\ \/ /\ disk' = IF disk["live"][Turn] = "none" THEN Wiped({"discard"}, {Turn}, {})
                   ELSE Renamed(Turn, "live", "discard")
        /\ Goto("undo_in")
     \/ /\ GiveUp
        /\ UNCHANGED disk
  /\ UNCHANGED <<stable, deploy, bundles, app, note, jobs, before>>

UndoIn ==
  /\ pc = "undo_in"
  /\ \/ /\ disk' = Renamed(Turn, "restoring", "live")
        /\ NextTurn("undo_aside", "undo_clear")
     \/ /\ GiveUp
        /\ UNCHANGED disk
  /\ UNCHANGED <<stable, deploy, bundles, app, note, jobs, before>>

UndoClear ==
  /\ pc = "undo_clear"
  /\ note' = NoNote
  /\ \E kept \in SUBSET Present("discard") : disk' = Wiped({"discard"}, Snapshotted, kept)
  /\ Goto("undo_start")
  /\ UNCHANGED <<stable, deploy, bundles, app, jobs, before>>

UndoStart ==
  /\ pc = "undo_start"
  /\ \/ task.wasRunning /\ (StartHealthy \/ StartUnhealthy)
     \/ ~task.wasRunning /\ UNCHANGED <<app, disk>>
  /\ PutBack
  /\ UNCHANGED <<stable, deploy, bundles, note, jobs, before>>

KeepWrite ==
  /\ pc = "keep_write"
  /\ deploy' = [deploy EXCEPT !.release = "r2"]
  /\ Goto("keep_start")
  /\ UNCHANGED <<stable, disk, bundles, app, note, jobs, before>>

KeepStart ==
  /\ pc = "keep_start"
  /\ \/ StartHealthy /\ Goto(IF task.wasRunning THEN "keep_clear" ELSE "keep_stop")
     \/ StartUnhealthy /\ GiveUp
  /\ UNCHANGED <<stable, deploy, bundles, note, jobs, before>>

------------------------------------------------------------------------------
Restore ==
  \/ Unpack \/ NoteRestore \/ StopForRestore \/ SwapAside \/ SwapIn
  \/ SwitchRelease \/ StartRestored \/ ClearRestored \/ Housekeep
PutBackSteps == BackStop \/ BackSwap \/ BackDeploy \/ BackClear \/ BackStart
Update ==
  \/ Capture \/ Render \/ StopForUpdate \/ Revert \/ RevertStart \/ Apply
  \/ WriteTarget \/ StartUpdated \/ StopAgain \/ ClearUpdated
Undo ==
  \/ UndoStop \/ UndoDeploy \/ UndoUnpack \/ UndoAside \/ UndoIn \/ UndoClear
  \/ UndoStart
Keep == KeepWrite \/ KeepStart

Next == Request \/ Crash \/ Execute \/ Restore \/ PutBackSteps \/ Update \/ Undo \/ Keep

Spec == Init /\ [][Next]_vars

------------------------------------------------------------------------------
(* Properties                                                                *)

TypeOK ==
  /\ added \in SUBSET Folders
  /\ disk \in [Places -> [Folders -> Contents]]
  /\ deploy \in Deployments
  /\ bundles \in [Releases -> Deployments \union {NoDeployment}]
  /\ app \in BOOLEAN
  /\ wanted \in BOOLEAN
  /\ note \in Notes
  /\ job \in Jobs
  /\ jobs \in 0..MaxJobs
  /\ pc \in Steps
  /\ todo \in SUBSET Folders
  /\ task \in Notes
  /\ before.live \in [Folders -> Contents]
  /\ before.deploy \in Deployments \union {NoDeployment}

\* While the note is there, the data from before it can still be put back
\* whole: each folder is where it was, kept aside, or in the update's backup.
Recoverable ==
  note # NoNote =>
    \A f \in Uses(before.deploy.files) :
      \/ disk["live"][f] = before.live[f]
      \/ note.kind = "restore" /\ f \in note.folders /\ disk["original"][f] = before.live[f]
      \/ note.applied /\ note.snapshot[f] = before.live[f]

\* A note that goes because the change was put back goes only once data and
\* deployment are exactly those from before the change.
IsAsBefore ==
  /\ deploy = before.deploy
  /\ \A f \in Uses(deploy.files) : disk["live"][f] = before.live[f]
PutBackIsExact ==
  [][note # NoNote /\ note' = NoNote /\ pc \in {"back_clear", "revert", "revert_stopped", "undo_clear"}
       => IsAsBefore']_vars

\* The app is whole: its release runs on one set of data, of that release.
WholeOn(live, release, names) ==
  \E c \in Contents \ {"none"} :
    ReleaseOf(c) = release /\ \A f \in names : live[f] \in {c, "none"}
Whole == WholeOn(disk["live"], deploy.release, Uses(deploy.files))

\* A change of a whole app that succeeds leaves it whole: with the backup's data
\* and release, or with the new release's.  (Folders only the new release uses
\* are left out of an update: an undo or a restore never takes them away.)
SuccessIsWhole ==
  [][LET was == Uses(before.deploy.files)
     IN  /\ job.state = "running" /\ job'.state = "succeeded"
         /\ WholeOn(before.live, before.deploy.release, was)
         => /\ job.action = "restore" =>
                 Whole' /\ \A f \in Holds(job.backup) : disk'["live"][f] = job.backup
            /\ job.action = "update" => WholeOn(disk'["live"], "r2", was)]_vars

\* A step breaks a whole app only while the note of the change is there, so
\* whatever stops the worker then, the app shows as needing attention.  (A
\* recovery from folders kept aside without a note is not such a change: see
\* NeverSideBySide.)
DamageIsNoted ==
  [][Whole /\ ~Whole' =>
       note' # NoNote \/ (task # NoNote /\ task.bundle = NoDeployment)]_vars

\* A change that breaks the app can be undone from where it stopped: the note is
\* there before the damage is, and while it is there the old data is whole.
ChangesCanBeUndone == [](TypeOK /\ Recoverable) /\ DamageIsNoted

\* The data of a restore and the data it replaced are never side by side in an
\* app that needs no attention.
NeverSideBySide ==
  ~Active /\ ~Blocking =>
    ~ \E f, g \in Uses(deploy.files) : disk["live"][f] \in Backups /\ disk["live"][g] = "old"

\* The backup an update took can be put in place of the data of the release
\* it goes back to.
UndoIsPossible ==
  note.applied => {f \in Folders : note.snapshot[f] # "none"} \subseteq Uses(note.bundle.files)
==============================================================================
