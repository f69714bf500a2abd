----------------------------- MODULE BackupHooks -----------------------------
(***************************************************************************)
(* Backups of one installed app (ctl/backup_service.py).  Kopia's server   *)
(* calls Mu3Lab just before and just after it copies the app's folder; the *)
(* call holds the app and has the worker stop or start it.  Between jobs   *)
(* the worker keeps the server in step: it starts an app whose backup went *)
(* away, recreates a server that still sees a folder a restore replaced,   *)
(* and writes the schedule chosen in Settings into Kopia's policies.       *)
(*                                                                         *)
(* Three actors run at once: Kopia, the API threads its calls run in, and  *)
(* the worker.  Each may die alone, and Kopia may leave a poll unanswered. *)
(***************************************************************************)
EXTENDS Naturals

CONSTANTS
    Schedules,      \* the schedules the household can choose
    Default,        \* the one it has before it chooses
    MaxBackups,     \* how many times Kopia backs the app up
    MaxAsks,        \* how many jobs are asked for, retried or cancelled
    MaxChanges,     \* how many times a schedule is changed, here or in Kopia
    MaxTrouble,     \* how many failures, deaths and unanswered polls
    MaxRestarts     \* how many times the server restarts by itself

ASSUME BackupAssumption ==
    /\ Default \in Schedules
    /\ {MaxBackups, MaxAsks, MaxChanges, MaxTrouble, MaxRestarts} \subseteq Nat

VARIABLES
    app,        \* whether the app's containers run
    record,     \* what the control state expects of it
    folder,     \* the app's data: the live folder and those the server knows
    note,       \* the note of a restore in progress
    job,        \* the app's active job: the store allows one
    hold,       \* the hold of a backup, with its age
    asked,      \* how the jobs of the newest hold went, by their keys
    call,       \* the API thread of Kopia's newest call
    kopia,      \* what the server does about the app
    chosen,     \* the schedule of Settings
    policy,     \* Kopia's policies, and the schedule its server has loaded
    applied,    \* the policies the worker recorded as set
    failed,     \* whether the app's latest start failed
    retryable,  \* the kinds of job of which one failed: it may be retried
    meddled,    \* whether a job that looks for no hold came after the newest hold
    used        \* how much of each bound is used

vars == <<app, record, folder, note, job, hold, asked, call, kopia, chosen,
          policy, applied, failed, retryable, meddled, used>>

appVars == <<app, record, failed>>
jobVars == <<job, retryable>>
holdVars == <<hold, meddled>>
policyVars == <<chosen, policy, applied>>
-----------------------------------------------------------------------------
NoHold == [since |-> 0, was_running |-> FALSE, age |-> "none"]
NoJob == [kind |-> "none", stage |-> "none", since |-> 0,
          reclaimed |-> FALSE, was |-> FALSE]
NoNote == [open |-> FALSE, was |-> FALSE, aside |-> 0]
Unasked(n) == [since |-> n, backup_stop |-> "none", backup_start |-> "none"]
NoCall == [action |-> "none", at |-> "none"]

Asks == {"stop", "start", "restore", "recover"}
HookJobs == {"backup_stop", "backup_start"}
Kinds == Asks \cup HookJobs
Outcomes == {"none", "active", "succeeded", "failed", "cancelled"}

TypeOK ==
    /\ app \in BOOLEAN
    /\ record \in {"running", "stopped", "queued", "failed"}
    /\ folder \in [live: 0..MaxAsks, mounted: 0..MaxAsks, recorded: 0..MaxAsks,
                   known: BOOLEAN, next: 1..MaxAsks + 1]
    /\ note \in [open: BOOLEAN, was: BOOLEAN, aside: 0..MaxAsks]
    /\ job \in [kind: Kinds \cup {"none"},
                stage: {"none", "queued", "running", "swapped"},
                since: 0..MaxBackups, reclaimed: BOOLEAN, was: BOOLEAN]
    /\ hold \in [since: 0..MaxBackups, was_running: BOOLEAN,
                 age: {"none", "new", "stuck", "old"}]
    /\ asked \in [since: 0..MaxBackups, backup_stop: Outcomes, backup_start: Outcomes]
    /\ call \in [action: {"none", "before", "after"},
                 at: {"none", "check", "stopping", "restarting", "starting"}]
    /\ kopia \in {"idle", "before", "upload", "after"}
    /\ chosen \in Schedules
    /\ policy \in [global: Schedules, own: {"ours", "other"},
                   loaded: Schedules \cup {"other"}]
    /\ applied \in [global: Schedules \cup {"none"}, own: BOOLEAN, repaired: BOOLEAN]
    /\ failed \in BOOLEAN /\ retryable \subseteq Kinds /\ meddled \in BOOLEAN
    /\ used \in [backups: 0..MaxBackups, asks: 0..MaxAsks, changes: 0..MaxChanges,
                 trouble: 0..MaxTrouble, restarts: 0..MaxRestarts]

Held == hold # NoHold
Trouble(n) == used.trouble + n <= MaxTrouble
Spend(n) == used' = [used EXCEPT !.trouble = @ + n]
LetGo == hold' = NoHold /\ UNCHANGED meddled

(* An app that runs, and a server whose policies were set. *)
Init ==
    /\ app = TRUE
    /\ record = "running"
    /\ folder = [live |-> 0, mounted |-> 0, recorded |-> 0,
                 known |-> TRUE, next |-> 1]
    /\ note = NoNote
    /\ job = NoJob
    /\ hold = NoHold
    /\ asked = Unasked(0)
    /\ call = NoCall
    /\ kopia = "idle"
    /\ chosen = Default
    /\ policy = [global |-> Default, own |-> "ours", loaded |-> Default]
    /\ applied = [global |-> Default, own |-> TRUE, repaired |-> FALSE]
    /\ failed = FALSE /\ retryable = {} /\ meddled = FALSE
    /\ used = [backups |-> 0, asks |-> 0, changes |-> 0,
               trouble |-> 0, restarts |-> 0]
-----------------------------------------------------------------------------
(* The job store: one active job per app; a key asked for before returns   *)
(* the job it made, finished or not.                                       *)

Queued(kind, since) == [NoJob EXCEPT !.kind = kind, !.stage = "queued", !.since = since]

CanQueue(kind) == asked[kind] # "none" \/ job = NoJob

Queue(kind) ==
    IF asked[kind] # "none"
    THEN UNCHANGED <<jobVars, asked>>
    ELSE /\ job' = Queued(kind, hold.since) /\ UNCHANGED retryable
         /\ asked' = [asked EXCEPT ![kind] = "active"]

Settled(kind) == asked[kind] \in {"succeeded", "failed", "cancelled"}

(* A finished job tells the calls waiting for it, if the hold is still theirs; *)
(* one that failed may be retried.                                         *)
FinishJob(outcome) ==
    /\ job' = NoJob
    /\ retryable' = retryable \cup (IF outcome = "failed" THEN {job.kind} ELSE {})
    /\ asked' = IF job.kind \in HookJobs /\ job.since = asked.since
                THEN [asked EXCEPT ![job.kind] = outcome] ELSE asked
-----------------------------------------------------------------------------
(* Kopia and its calls. *)

StartBackup ==
    /\ kopia = "idle" /\ call = NoCall
    /\ used.backups < MaxBackups
    /\ used' = [used EXCEPT !.backups = @ + 1]
    /\ kopia' = "before"
    /\ call' = [action |-> "before", at |-> "check"]
    /\ UNCHANGED <<appVars, folder, note, jobVars, holdVars, asked, policyVars>>

(* The call is answered: a refused before-action makes Kopia skip the backup. *)
Answer(phase) ==
    /\ call' = NoCall
    /\ kopia' = IF kopia = call.action THEN phase ELSE kopia

MayHold == folder.recorded = folder.live /\ ~Held /\ ~note.open

BeforeRefuses ==
    /\ call = [action |-> "before", at |-> "check"]
    /\ ~MayHold
    /\ Answer("idle")
    /\ UNCHANGED <<appVars, folder, note, jobVars, holdVars, asked, policyVars, used>>

(* The hold, and the job that stops an app the household expects to run.   *)
BeforeHolds ==
    /\ call = [action |-> "before", at |-> "check"]
    /\ MayHold
    /\ LET running == record # "stopped"
           held == [since |-> used.backups, was_running |-> running, age |-> "new"]
       IN  \/ /\ ~running
              /\ hold' = held /\ meddled' = FALSE
              /\ asked' = Unasked(used.backups)
              /\ Answer("upload")
              /\ UNCHANGED jobVars
           \/ /\ running /\ job = NoJob
              /\ hold' = held /\ meddled' = FALSE
              /\ job' = Queued("backup_stop", used.backups)
              /\ asked' = [Unasked(used.backups) EXCEPT !.backup_stop = "active"]
              /\ call' = [call EXCEPT !.at = "stopping"]
              /\ UNCHANGED <<kopia, retryable>>
           \/ /\ running /\ job # NoJob      \* JobConflict: the hold goes again
              /\ Answer("idle")
              /\ UNCHANGED <<holdVars, jobVars, asked>>
    /\ UNCHANGED <<appVars, folder, note, policyVars, used>>

(* Mutant: the call waits for the job to end, whichever way.               *)
BeforeReady_AnyEnd ==
    /\ call.at = "stopping"
    /\ Settled("backup_stop")
    /\ Answer("upload")
    /\ UNCHANGED <<appVars, folder, note, jobVars, holdVars, asked, policyVars, used>>

BeforeReady ==
    /\ call.at = "stopping"
    /\ asked["backup_stop"] = "succeeded"
    /\ Answer("upload")
    /\ UNCHANGED <<appVars, folder, note, jobVars, holdVars, asked, policyVars, used>>

(* The stop failed or was cancelled, or the worker did not get to it in    *)
(* HOOK_WAIT_SECONDS: start the app again, unless its stop still waits.    *)
BeforeFails ==
    /\ call.at = "stopping"
    /\ \E late \in {0, 1} :
        /\ late = 0 => asked["backup_stop"] \in {"failed", "cancelled"}
        /\ late = 1 => asked["backup_stop"] = "active"
        /\ Trouble(late) /\ Spend(late)
    /\ IF CanQueue("backup_start")
       THEN /\ Queue("backup_start")
            /\ call' = [call EXCEPT !.at = "restarting"]
            /\ UNCHANGED kopia
       ELSE Answer("idle") /\ UNCHANGED <<jobVars, asked>>
    /\ UNCHANGED <<appVars, folder, note, holdVars, policyVars>>

(* The call waits for the start, as long as it is patient; then the hold goes. *)
Waited ==
    \E late \in {0, 1} :
        /\ IF late = 0 THEN Settled("backup_start") ELSE asked["backup_start"] = "active"
        /\ Trouble(late) /\ Spend(late)

BeforeGivesUp ==
    /\ call.at = "restarting"
    /\ Waited
    /\ LetGo
    /\ Answer("idle")
    /\ UNCHANGED <<appVars, folder, note, jobVars, asked, policyVars>>

UploadEnds ==
    /\ kopia = "upload"
    /\ kopia' = "after"
    /\ call' = [action |-> "after", at |-> "check"]
    /\ UNCHANGED <<appVars, folder, note, jobVars, holdVars, asked, policyVars, used>>

(* A copy that fails has no after-action. *)
UploadFails ==
    /\ kopia = "upload"
    /\ Trouble(1) /\ Spend(1)
    /\ kopia' = "idle"
    /\ UNCHANGED <<appVars, folder, note, jobVars, holdVars, asked, call, policyVars>>

AfterCalled ==
    /\ call = [action |-> "after", at |-> "check"]
    /\ \/ /\ ~hold.was_running              \* not held any more, or stays stopped
          /\ LetGo
          /\ Answer("idle")
          /\ UNCHANGED <<jobVars, asked>>
       \/ /\ hold.was_running /\ CanQueue("backup_start")
          /\ Queue("backup_start")
          /\ call' = [call EXCEPT !.at = "starting"]
          /\ UNCHANGED <<holdVars, kopia>>
       \/ /\ hold.was_running /\ ~CanQueue("backup_start")
          /\ Answer("idle")
          /\ UNCHANGED <<holdVars, jobVars, asked>>
    /\ UNCHANGED <<appVars, folder, note, policyVars, used>>

AfterEnds ==
    /\ call.at = "starting"
    /\ Waited
    /\ LetGo
    /\ Answer("idle")
    /\ UNCHANGED <<appVars, folder, note, jobVars, asked, policyVars>>

(* The API restarts under a call: Kopia takes the action for failed.       *)
ApiDies ==
    /\ call # NoCall
    /\ Trouble(1) /\ Spend(1)
    /\ Answer("idle")
    /\ UNCHANGED <<appVars, folder, note, jobVars, holdVars, asked, policyVars>>

Loaded(p) == IF p.own = "other" THEN "other" ELSE p.global

(* The server restarts by itself: its mounts follow the folders of now, and *)
(* the thread of its call goes on without it.                              *)
KopiaRestarts ==
    /\ used.restarts < MaxRestarts
    /\ used' = [used EXCEPT !.restarts = @ + 1]
    /\ kopia' = "idle"
    /\ folder' = [folder EXCEPT !.mounted = folder.live, !.known = FALSE]
    /\ policy' = [policy EXCEPT !.loaded = Loaded(policy)]
    /\ UNCHANGED <<appVars, note, jobVars, holdVars, asked, call, chosen, applied>>

HoldAges ==
    /\ hold.age \in {"new", "stuck"}
    /\ hold' = [hold EXCEPT !.age = IF @ = "new" THEN "stuck" ELSE "old"]
    /\ UNCHANGED <<appVars, folder, note, jobVars, asked, call, kopia, policyVars, used,
                   meddled>>
-----------------------------------------------------------------------------
(* The owner.  A held app refuses, and so does one a job is queued for; a  *)
(* note allows only putting the app back.  "start" stands for a restart    *)
(* too, which runs the same commands.                                      *)

Allowed(kind) ==
    CASE kind = "stop" -> app /\ record # "queued" /\ ~note.open
      [] kind = "start" -> record # "queued" /\ ~note.open
      [] kind = "restore" -> record # "queued" /\ ~note.open
      [] kind = "recover" -> note.open

Ask(kind) ==
    /\ used.asks < MaxAsks
    /\ job = NoJob
    /\ job' = Queued(kind, 0)
    /\ used' = [used EXCEPT !.asks = @ + 1]

OwnerAsks(kind) ==
    /\ Ask(kind)
    /\ ~Held /\ Allowed(kind)
    /\ record' = IF kind \in {"stop", "start"} THEN "queued" ELSE record
    /\ UNCHANGED <<app, failed, folder, note, retryable, holdVars, asked, call, kopia, policyVars>>

(* A retry of a failed job looks neither for a hold nor for a note.        *)
OwnerRetries(kind) ==
    /\ Ask(kind)
    /\ kind \in retryable
    /\ meddled' = TRUE
    /\ UNCHANGED <<appVars, folder, note, retryable, hold, asked, call, kopia, policyVars>>

(* An administrator cancels: a job that waits at once, a running one at its *)
(* next checkpoint, its command done or not.  Neither a restore that has    *)
(* noted what it does nor a recovery has such a checkpoint.                 *)
OwnerCancels ==
    /\ used.asks < MaxAsks
    /\ used' = [used EXCEPT !.asks = @ + 1]
    /\ \/ job.stage = "queued" /\ UNCHANGED app
       \/ job.stage = "running" /\ job.kind \in {"stop", "backup_stop"} /\ app' \in {app, FALSE}
       \/ job.stage = "running" /\ job.kind \in {"start", "backup_start"} /\ app' \in {app, TRUE}
       \/ job.stage = "running" /\ job.kind = "restore" /\ UNCHANGED app
    /\ FinishJob("cancelled")
    /\ UNCHANGED <<record, failed, folder, note, holdVars, call, kopia, policyVars>>

(* Jobs of others look for no hold: the start of another app starts the    *)
(* apps it needs, and the voice switch stops and starts those on the card. *)
ChangedByAnother ==
    /\ used.asks < MaxAsks
    /\ job.stage \in {"none", "queued"}
    /\ ~note.open
    /\ \/ record = "stopped" /\ app' = TRUE /\ record' = "running" /\ failed' = FALSE
       \/ record # "stopped" /\ app' = FALSE /\ record' = "stopped" /\ UNCHANGED failed
    /\ meddled' = TRUE
    /\ used' = [used EXCEPT !.asks = @ + 1]
    /\ UNCHANGED <<folder, note, jobVars, hold, asked, call, kopia, policyVars>>

ScheduleChanges ==
    /\ used.changes < MaxChanges
    /\ used' = [used EXCEPT !.changes = @ + 1]
    /\ \/ /\ \E s \in Schedules \ {chosen} : chosen' = s
          /\ UNCHANGED policy
       \/ /\ policy.own # "other"              \* an administrator, in Kopia itself
          /\ policy' = [policy EXCEPT !.own = "other", !.loaded = "other"]
          /\ UNCHANGED chosen
    /\ UNCHANGED <<appVars, folder, note, jobVars, holdVars, asked, call, kopia, applied>>
-----------------------------------------------------------------------------
(* The worker's jobs. *)

Claim ==
    /\ job.stage = "queued"
    /\ LET refused == job.kind \in {"restore", "recover"} /\ (job.reclaimed \/ Held)
       IN  IF refused \/ (job.kind = "restore" /\ note.open)
           THEN FinishJob("failed")
           ELSE /\ job' = [job EXCEPT !.stage = "running", !.was = record # "stopped"]
                /\ UNCHANGED <<asked, retryable>>
    /\ UNCHANGED <<appVars, folder, note, holdVars, call, kopia, policyVars, used>>

Running(kind) == job.kind = kind /\ job.stage = "running"

(* app_control.stop and start; one that fails leaves the app up or down.   *)
Stops == app' = FALSE /\ UNCHANGED <<failed, used>> /\ FinishJob("succeeded")
StopFails ==
    app' \in {app, FALSE} /\ UNCHANGED failed /\ FinishJob("failed") /\ Trouble(1) /\ Spend(1)

Starts == app' = TRUE /\ failed' = FALSE /\ UNCHANGED used /\ FinishJob("succeeded")
StartFails ==
    app' \in BOOLEAN /\ failed' = TRUE /\ FinishJob("failed") /\ Trouble(1) /\ Spend(1)

BackupStop ==
    /\ Running("backup_stop")
    /\ Stops \/ StopFails
    /\ UNCHANGED <<record, folder, note, holdVars, call, kopia, policyVars>>

BackupStart ==
    /\ Running("backup_start")
    /\ Starts \/ StartFails
    /\ UNCHANGED <<record, folder, note, holdVars, call, kopia, policyVars>>

OwnersStop ==
    /\ Running("stop")
    /\ \/ Stops /\ record' = "stopped"
       \/ StopFails /\ record' = "failed"
    /\ UNCHANGED <<folder, note, holdVars, call, kopia, policyVars>>

(* A start refused for what it waits on leaves the record as it is.        *)
OwnersStart ==
    /\ Running("start")
    /\ \/ Starts /\ record' = "running"
       \/ StartFails /\ record' \in {record, "failed"}
    /\ UNCHANGED <<folder, note, holdVars, call, kopia, policyVars>>

(* A restore that finds the backup unusable has changed nothing.           *)
RestoreRefused ==
    /\ Running("restore")
    /\ FinishJob("failed") /\ Trouble(1) /\ Spend(1)
    /\ UNCHANGED <<appVars, folder, note, holdVars, call, kopia, policyVars>>

(* A restore notes what it does, stops the app and swaps in a new folder.  *)
RestoreSwaps ==
    /\ Running("restore")
    /\ note' = [open |-> TRUE, was |-> job.was, aside |-> folder.live]
    /\ app' = (app /\ ~job.was)
    /\ folder' = [folder EXCEPT !.live = folder.next, !.next = @ + 1]
    /\ job' = [job EXCEPT !.stage = "swapped"]
    /\ UNCHANGED <<record, failed, retryable, holdVars, asked, call, kopia, policyVars, used>>

(* The put-back starts an app that ran; it counts even if that start fails. *)
PutBack ==
    /\ folder' = [folder EXCEPT !.live = note.aside]
    /\ note' = NoNote
    /\ app' \in {FALSE, note.was}
    /\ failed' = IF note.was THEN ~app' ELSE failed

(* The app could not be stopped: its note stays, for the owner.            *)
PutBackFails == UNCHANGED <<appVars, folder, note>>

RestoreEnds ==
    /\ job.kind = "restore" /\ job.stage = "swapped"
    /\ \/ /\ note' = NoNote
          /\ app' = (app \/ note.was)
          /\ failed' = (failed /\ ~note.was)
          /\ record' = IF job.was THEN "running" ELSE "stopped"
          /\ FinishJob("succeeded")
          /\ UNCHANGED <<folder, used>>
       \/ /\ (PutBack /\ UNCHANGED record) \/ PutBackFails
          /\ FinishJob("failed")           \* it did not start on the restored data
          /\ Trouble(1) /\ Spend(1)
    /\ UNCHANGED <<holdVars, call, kopia, policyVars>>

(* A retried recovery may find that nothing is left to put back.           *)
Recover ==
    /\ Running("recover")
    /\ \/ /\ note.open /\ PutBack
          /\ record' = IF job.was THEN "running" ELSE "stopped"
          /\ FinishJob("succeeded")
          /\ UNCHANGED used
       \/ /\ note.open /\ PutBackFails
          /\ FinishJob("failed") /\ Trouble(1) /\ Spend(1)
       \/ ~note.open /\ PutBackFails /\ FinishJob("failed") /\ UNCHANGED used
    /\ UNCHANGED <<holdVars, call, kopia, policyVars>>

(* A command of a worker that dies may be done, and is run again.          *)
WorkerDies ==
    /\ job.stage \in {"running", "swapped"}
    /\ Trouble(1) /\ Spend(1)
    /\ job' = [job EXCEPT !.stage = "queued", !.reclaimed = TRUE]
    /\ CASE job.kind \in {"stop", "backup_stop"} -> app' \in {app, FALSE}
         [] job.kind \in {"start", "backup_start"} -> app' \in {app, TRUE}
         [] OTHER -> UNCHANGED app
    /\ UNCHANGED <<record, failed, folder, note, retryable, holdVars, asked, call, kopia,
                   policyVars>>
-----------------------------------------------------------------------------
(* The worker's upkeep, between jobs. *)

(* _restart_stuck: the app of a hold Kopia no longer works for is started. *)
Stuck(answered) ==
    /\ Held
    /\ ~(answered /\ kopia # "idle")
    /\ hold.age \in IF answered THEN {"stuck", "old"} ELSE {"old"}

(* Mutant: only a server that does not answer makes a hold stuck.          *)
RestartStuck_Silent(answered) ==
    IF answered \/ ~Stuck(answered) \/ (hold.was_running /\ ~CanQueue("backup_start"))
    THEN UNCHANGED <<holdVars, jobVars, asked>>
    ELSE /\ LetGo
         /\ IF hold.was_running THEN Queue("backup_start") ELSE UNCHANGED <<jobVars, asked>>

RestartStuck(answered) ==
    IF ~Stuck(answered) \/ (hold.was_running /\ ~CanQueue("backup_start"))
    THEN UNCHANGED <<holdVars, jobVars, asked>>
    ELSE /\ LetGo
         /\ IF hold.was_running THEN Queue("backup_start") ELSE UNCHANGED <<jobVars, asked>>

Busy(answered) == hold' # NoHold \/ (answered /\ kopia # "idle")

(* The folders moved and the server is still the one that saw the old ones. *)
FoldersMoved == folder.known /\ folder.recorded # folder.live

(* Mutant: what was recorded is believed.                                  *)
Differs_Never(answered) == FALSE /\ answered

(* What Kopia reports wins over what was recorded, once.                   *)
Differs(answered) == answered /\ applied.global = chosen /\ policy.loaded # chosen

Repairs(answered) == Differs(answered) /\ ~applied.repaired

Believed(answered) ==
    IF Repairs(answered)
    THEN [applied EXCEPT !.global = "none", !.own = FALSE] ELSE applied

SetPolicies(answered) ==
    LET believed == Believed(answered)
        changed == believed.global # chosen \/ ~believed.own
        set == [policy EXCEPT
                    !.global = IF believed.global # chosen THEN chosen ELSE @,
                    !.own = IF believed.own THEN @ ELSE "ours"]
    IN  /\ policy' = IF changed THEN [set EXCEPT !.loaded = Loaded(set)] ELSE policy
        /\ applied' = [global |-> chosen, own |-> TRUE, repaired |-> Differs(answered)]

KeepPolicies(answered) == UNCHANGED policy /\ applied' = Believed(answered)

Reconcile(answered) ==
    /\ job.stage \in {"none", "queued"}
    /\ RestartStuck(answered)
    /\ \/ /\ FoldersMoved /\ Busy(answered)      \* never cut a running backup short
          /\ UNCHANGED <<folder, kopia, policy, applied>>
       \/ /\ FoldersMoved /\ ~Busy(answered)     \* the server is recreated
          /\ folder' = [folder EXCEPT !.mounted = folder.live, !.recorded = folder.live]
          /\ kopia' = "idle"
          /\ policy' = [policy EXCEPT !.loaded = Loaded(policy)]
          /\ applied' = Believed(answered)
       \/ /\ ~FoldersMoved
          /\ folder' = [folder EXCEPT !.recorded = folder.live, !.known = TRUE]
          /\ IF answered /\ ~Busy(answered)
             THEN SetPolicies(answered) ELSE KeepPolicies(answered)
          /\ UNCHANGED kopia
    /\ IF answered THEN UNCHANGED used ELSE Trouble(1) /\ Spend(1)
    /\ UNCHANGED <<appVars, note, call, chosen>>

(* Kopia refuses a policy half-way: what was set so far is not recorded.   *)
ReconcileStopsShort ==
    /\ job.stage \in {"none", "queued"}
    /\ Trouble(1) /\ Spend(1)
    /\ RestartStuck(TRUE)
    /\ ~FoldersMoved /\ ~Busy(TRUE)
    /\ folder' = [folder EXCEPT !.recorded = folder.live, !.known = TRUE]
    /\ policy' = [policy EXCEPT !.global = chosen]
    /\ applied' = [Believed(TRUE) EXCEPT !.global = chosen]
    /\ UNCHANGED <<appVars, note, call, kopia, chosen>>
-----------------------------------------------------------------------------
Hooks ==
    \/ BeforeRefuses \/ BeforeHolds \/ BeforeReady \/ BeforeFails \/ BeforeGivesUp
    \/ AfterCalled \/ AfterEnds

Jobs ==
    \/ Claim \/ BackupStop \/ BackupStart \/ OwnersStop \/ OwnersStart
    \/ RestoreRefused \/ RestoreSwaps \/ RestoreEnds \/ Recover

World ==
    \/ StartBackup \/ UploadFails \/ ApiDies \/ KopiaRestarts \/ WorkerDies
    \/ OwnerCancels \/ ChangedByAnother \/ ScheduleChanges
    \/ \E kind \in Asks : OwnerAsks(kind)
    \/ \E kind \in Kinds : OwnerRetries(kind)

Next ==
    \/ Hooks \/ Jobs \/ World \/ UploadEnds \/ HoldAges
    \/ \E answered \in BOOLEAN : Reconcile(answered)
    \/ ReconcileStopsShort

(* Calls run to their end, a copy ends, time passes, the worker works.     *)
Fairness ==
    /\ WF_vars(Hooks) /\ WF_vars(Jobs)
    /\ WF_vars(UploadEnds) /\ WF_vars(HoldAges)
    /\ WF_vars(Reconcile(TRUE))

Spec == Init /\ [][Next]_vars /\ Fairness
-----------------------------------------------------------------------------
(* While Kopia copies an app it has stopped, the app stays stopped: no     *)
(* other job, request or repair of the worker starts it, save a job that   *)
(* looks for no hold: a retry of a failed one, another app's start or the  *)
(* voice switch.                                                           *)
HeldMeansStopped == kopia = "upload" /\ hold.was_running /\ ~meddled => ~app

(* The folder of an app stopped for its backup stays the one the server    *)
(* was checked against: no restore swaps it under the copy, not even one   *)
(* that is retried.                                                        *)
FolderStaysPut ==
    kopia = "upload" /\ hold.was_running => folder.recorded = folder.live

(* A hold is let go under a copy only once the server has not answered for *)
(* the longer limit: the short one is for copies that are over.            *)
CopiesKeepTheirHold ==
    [][kopia = "upload" /\ kopia' = "upload" /\ Held /\ hold' = NoHold
            => hold.age = "old"]_vars

(* Every hold ends, whoever dies between the two calls.                    *)
HoldsEnd == Held ~> ~Held

(* An app a backup stopped runs again when the hold is gone, unless its    *)
(* own start failed or was cancelled, or a job that looks for no hold came *)
(* in between.                                                             *)
ComesBack ==
    hold.was_running
        ~> (~Held /\ (app \/ failed \/ asked.backup_start = "cancelled" \/ meddled))

(* Once nobody changes it any more, Kopia runs the app on the schedule of  *)
(* Settings, or the worker has repaired it once and says it still differs. *)
ScheduleFollows == <>[](policy.loaded = chosen \/ applied.repaired)

(* An app the backup stopped is copied at rest, from the folder that was   *)
(* checked, to the end: unless a job that looks for no hold is let at it.  *)
CopiedAtRest == [](TypeOK /\ HeldMeansStopped /\ FolderStaysPut) /\ CopiesKeepTheirHold

(* A backup never keeps an app for good: the hold ends, and the app runs   *)
(* unless its start failed or was cancelled, or such a job came between.   *)
AppsComeBack == HoldsEnd /\ ComesBack

(* "A bind mount follows the folder, not its name, so the server is        *)
(* recreated, while idle, after a restore swaps an app's folders; until    *)
(* then, the before-action refuses that app": what Kopia copies is the     *)
(* app's live data.                                                        *)
BacksUpTheLiveFolder ==
    kopia = "upload" /\ hold.was_running => folder.mounted = folder.live

(* "The app is stopped for its backup right now; nothing else may change   *)
(* it": while a hold stands over a copy, the app and its folder stay put.  *)
NothingElseChangesIt ==
    [][kopia = "upload" /\ kopia' = "upload" /\ Held /\ Held'
            => app' = app /\ folder'.live = folder.live]_vars
=============================================================================
