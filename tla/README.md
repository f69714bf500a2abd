# Mu3Lab verification

TLA+ models, TLC runs and TLAPS proofs for Mu3Lab, the household control plane
in `src/ctl`: a Python API process and a worker process on one computer, one
SQLite database (`state/mu3lab.db`) between them, and apps that run under
Docker Compose.

The models are about what a unit test hardly reaches: two actors between two
transactions of each other, a worker killed between two steps, a lost answer, a
request repeated. They leave out what the code computes without such risk:
rendering, parsing, wording, audit text, logging.

Contents: [the system](#the-system), [the plan](#the-plan),
[the modules](#the-modules), [the runs](#the-runs), [fairness](#fairness),
[the proofs](#the-proofs),
[disagreements with the code](#where-the-code-and-its-documentation-disagree),
[what is not modelled](#what-is-not-modelled), [running it](#running-it).

## The system

### How the parts interact

```
 ./install.sh ──> installer ──> host, core services, first core job
                                    │  (--restore: an older computer's backup)
 browser ──> API process (FastAPI threads) ──┐
                │  queue, retry, cancel, batches, calendars, people
                v                            v
         SQLite state/mu3lab.db   <──>  worker process
         jobs, batches, people ...      main thread: claim a job, run it, record its end
                                        heartbeat thread: renew the job's lease
                                        download threads: fetch images, continue batches
                                        upkeep between jobs: revocations, tools, backups
                                             │ commands (docker compose, and other tools)
                                             v
                                        apps, data disk, runtime projects, Authentik,
                                        Nextcloud, LiteLLM, ContextForge, Kopia
                                        (which calls the API before and after a backup)
 update guard (a systemd unit of its own) ──> replaces or puts back all of the above
```

- Calls into the control plane are API threads. Each does its work in one or
  more SQLite transactions (`BEGIN IMMEDIATE`), so the atomic step of the models
  is the transaction, not the handler.
- Long work is a job. The API inserts a row; the worker polls, claims the oldest
  queued job with a lease, and runs it on its main thread. Jobs start commands,
  which are process groups that may outlive the worker.
- systemd restarts the worker and the API. A new worker waits for a kernel lock
  (`flock`) and then for the commands the previous one recorded.
- An app is changed only by the one active job it has, but folders, notes and
  containers survive a worker that died half-way.
- Authentik, Nextcloud, the gateways, Kopia and Docker are external; they answer
  late, twice, or not at all.

### Inventory

State is what the component keeps across steps; *hard* is what its models must
contain to be worth anything; *correct* is the claim.

| Component (source) | State | Operations | Hard | Correct when |
| --- | --- | --- | --- | --- |
| Job queue (`jobs.py`) | `jobs`, `mutation_requests`, audit | create, join, replay, retry, cancel, claim, renew, finish | cancel reads and writes in two transactions; leases run out under a live worker | a service has one active job; a key creates one job; outcomes are final; every job ends |
| Worker loop (`worker.py`, `job_guard.py`, `job_processes.py`, `process.py`) | kernel lock, lease, tracked commands, shield | settle, claim, checkpoint, run a command, heartbeat, unwind | crash between `Popen` and its record; a lost lease noticed late; a shield around steps that must not stop | no job runs beside another or beside an earlier worker's recorded command; nothing starts after a cancellation |
| Install batches, download manager (`install_batches.py`, `download_manager.py`, routes) | batches, items, threads, stop events | create, append, pause, resume, reorder, claim, enqueue, advance, reconcile, cancel, reset | the worker's main thread and every download thread continue the same batch | one setup at a time; dependencies first; a batch that succeeded is complete; every batch ends |
| Image downloads (`image_fetch.py`) | finished files, part files, marks | plan, fetch ranges, check, load, fall back | threads with one queue and one error; a worker that dies between two files; two callers of one cache | what is kept is whole, what is marked was received, every call ends |
| Install, uninstall, lifecycle (`service_ops.py`, `engine/`, `lifecycle/`) | record, files, containers, data, routes, addresses | install, start, stop, restart, reset, uninstall, delete | a job resumed from its start; a failure between two of those stores | a job that says it succeeded did; data keeps its release; removed apps leave nothing |
| Chat connectors (`mcp_ops.py`) | record, container, files, gateway | prepare, enable, disable, update, switch, follow the app | each of the four is elsewhere; the worker dies between two | one connector per app at most; the tools follow their app |
| Changes of an app (`lifecycle/restore.py`, `update.py`, `maintenance.py`, `in_progress.py`) | data folders in four places, the note, the release | restore, update, recover, undo, keep | a crash between any two renames, and again while putting back | the old data can be put back whole while the note is there |
| Deployment copies (`lifecycle/deployments.py`, `app_releases.py`) | bundles, release records | capture, restore, latest | the record and the files change in separate steps | a change that was put back leaves both as before |
| Backups and hooks (`backup_service.py`, `backups.py`) | holds, jobs, Kopia's policies | before and after calls, stuck apps, schedule | Kopia, API threads and the worker each die alone; a poll unanswered | the app is stopped while it is saved and runs again afterwards |
| Calendars (`local_calendar.py`, `nextcloud_calendar.py`) | local events, tombstones, ETags | edit, connect, sync, resolve a conflict, disconnect | lost answers; Nextcloud's own clients; a sync saved only at its end | no text a person wrote is lost; conflicts wait for the person |
| People and access (`people.py`, `access.py`, `api/security.py`) | holds, revocation tasks, sessions | demote, promote, deactivate, reactivate | tasks read once and retried beside newer changes, by two runners | no demotion is lost, every revocation ends |
| Tools of the household (`chat_ops.py`, `person_connectors.py`, `calendar_tools.py`, `voice_tools.py`, `contextforge_ops.py`) | credentials issued to people | passes of the worker | a pass acts on the household it read | tools follow the household |
| Installer, core setup (`install.py`, `preflight.py`, `core_setup.py`, `provisioning.py`) | the computer itself, the provisioning record, the core job | check, fix, install, verify | a run that dies anywhere, a newer checkout, an older rendered gateway | the dashboard is never open; running it again ends with a whole system |
| Rebuild (`rebuild.py`) | marker, record of owned folders | restore, clear, resume | an interrupted restore; a person's own files in the way | one computer's secrets and data; nobody's files are touched |
| Self-update and guard (`self_update.py`, `update_guard.py`) | code, packages, database copy, plan, result | update, watch, go back | worker, API, guard and computer each go down | one whole version, the result is true, no accepted work is lost |
| Local models and providers (`local_models.py`, `provider_ops.py`, `core_wiring.py`, `voice_settings.py`) | settings, provider record, key, rendered files, running proxies | choose, save, verify, disable, remove, roll back | two stores, two files, two proxies; a job cut short and run again | what a job claims is what is served; a removed key is gone |
| Full-duplex voice (`duplex_voice.py`) | mode, stopped apps, the card | switch on, switch off | the mode is stored before apps stop; the page writes what it read | one model on the card; every stopped app starts again |
| Resource locks (`resource_locks.py`) | kernel locks per resource | acquire sorted, nest | | |
| Status observer, database, vault sync, disk cleanup, HTTP layer, catalog, dashboard | little or none of their own | | | |

`PROJECT.json` lists every component with its sources and what is modelled of
it, and the hazards at the line where each bites.

## The plan

The order is by what a household loses if the part goes wrong, and by what the
later modules can build on.

1. **JobQueue** with its abstract specification **JobContract**: everything else
   runs inside jobs. *Modelled, checked, proved.*
2. **InstallBatch**: the most concurrent part of the worker. *Modelled, checked, proved.*
3. **AppChange**: the part that moves people's data. *Modelled, checked, proved.*
4. **CalendarSync**: what people wrote, against a server that may not answer.
   *Modelled, checked, proved.*
5. **People** and **Access**, which composes it with the worker's passes.
   *Modelled, checked, proved in part.*
6. **HostSetup**, **Rebuild** and **CoreSetup**, which composes them.
   *Modelled, checked, proved.*
7. **SelfUpdate** with its guard. *Modelled, checked, proved.*
8. **Connectors** and **AppLife**, which composes it. *Modelled, checked, proved.*
9. **BackupHooks**. *Modelled, checked, proved.*
10. **AiRouting** and **DuplexSwitch**, which composes it. *Modelled, checked, proved.*
11. **ImageFetch**. *Modelled, checked, proved.*

What is left to prove is listed under "Only model-checked" below.
## The modules

| Module | Models | Composes, extends | Instance |
| --- | --- | --- | --- |
| `JobQueue` | `jobs.py`, `worker.py`, `job_guard.py`, `job_processes.py`, `process.py`, `WorkerLock` | | `MCJobQueue` |
| `JobContract` | what the queue promises its callers | instantiated as `JobQueue!Contract` | |
| `JobQueueProofs` | theorems about `JobQueue` | | |
| `InstallBatch` | `install_batches.py`, `download_manager.py`, routes | | `MCInstallBatch` |
| `InstallBatchProofs` | theorems about `InstallBatch` and about `ImageFetch` | | |
| `ImageFetch` | `image_fetch.py` and its two callers | | `MCImageFetch` |
| `AppChange` | `restore.py`, `update.py`, `maintenance.py`, `in_progress.py`, `deployments.py`, parts of `app_control.py` | | itself |
| `AppChangeProofs` | theorems about `AppChange` | | |
| `Connectors` | `mcp_ops.py` | | through `AppLife` |
| `AppLife` | `service_ops.py`, `engine/`, `lifecycle/`, `app_releases.py`, `service_state.py` | `Connectors` | `MCAppLife` |
| `BackupHooks` | `backup_service.py`, the jobs `backup_stop` and `backup_start` | | itself |
| `BackupHooksProofs` | theorems about `BackupHooks` | | |
| `CalendarSync` | `local_calendar.py`, parts of `nextcloud_calendar.py` | | itself |
| `CalendarSyncProofs` | theorems about `CalendarSync` | | |
| `People` | `people.py`, `access.py`, `api/security.py` | | through `Access` |
| `Access` | `chat_ops.py`, `person_connectors.py`, `calendar_tools.py`, `voice_tools.py`, `contextforge_ops.py` | `People` | itself |
| `HostSetup` | `install.py`, `preflight.py` | | through `CoreSetup` |
| `Rebuild` | `rebuild.py` | | through `CoreSetup` |
| `CoreSetup` | `core_setup.py`, `provisioning.py`, `provisioning_jobs.py` | `HostSetup`, `Rebuild` | itself |
| `CoreSetupProofs` | theorems about `CoreSetup` and about `Access` | | |
| `SelfUpdate` | `self_update.py`, `update_guard.py` | | itself |
| `LifecycleProofs` | theorems about `AppLife` with `Connectors`, and about `SelfUpdate` | | |
| `AiRouting` | `local_models.py`, `provider_ops.py`, `core_wiring.py`, `voice_settings.py` | | through `DuplexSwitch` |
| `DuplexSwitch` | `duplex_voice.py` | `AiRouting` | itself |
| `DuplexSwitchProofs` | theorems about `DuplexSwitch` and `AiRouting` | | |

Definitions keep the names of the code where they can (`Create`, `Retry`,
`AdvanceInstall`, `KeepMine`). A definition whose comment says "mutant" is the
neighbouring definition with a plausible bug in it; it is used by no action and
exists to show that a property notices the bug. A property that a run names may
be the conjunction of named parts; the text below names the parts.

### JobQueue

State: the `jobs` table column by column (`state`, `service`, `request`, `key`,
`owner`, `lease`, `cancelRequested`, `order`), the `mutation_requests` table
(`remembered`), a `cancel()` call between its two transactions (`cancelling`),
the worker processes (`lock`, `pc`, `job`, `shielded`, `lost`, `age`, `todo`) and
their commands (`alive`, `tracked`, `left`). `claims` counts the `job.claimed`
audit rows, `after` is history: commands begun after a cancellation was asked.

| Action | Code |
| --- | --- |
| `Create`, `Retry` (through `Submit`: `Join` or `Insert`) | `JobStore.create`, `retry`, one transaction each, with key replay |
| `RequestCancel`, `CancelNow` | the read and the write of `cancel` |
| `Start`, `AcquireLock`, `Settle`, `Claim` | `WorkerLock`, `job_processes.settle`, `JobStore.claim` with the end of jobs given up |
| `Checkpoint`, `Spawn`, `Track`, `TrackFails`, `Reap` | `job_guard.checkpoint` and `process.run`: the check, the start of a command, its record and its end are separate steps |
| `EnterShield`, `LeaveShield` | `job_guard.uncancellable` |
| `Heartbeat`, `HeartbeatFails` | the renewing thread of `worker.py`, and a database that cannot be written |
| `Finish`, `Unwind` | the end of `worker.run_job`: as the command ended, as cancelled, or with the lease lost |
| `Crash`, `CommandEnds`, `Tick` | a kill at any point, a command's exit, time |

Time is relative: `lease[j]` and `left[w]` are what remains, so the state space
has no absolute clock. `Legacy` is the set of jobs that an older release left in
`waiting_for_confirmation`; nothing in this release writes that state, the code
still handles it. A restarted worker is a new member of `Workers`; a dead one
stays dead, with whatever command it left.

`JobContract` says what a caller may rely on with no lease, lock, crash or
process in it: a job is accepted only for a service without another open job
(apart from a waiting one that it replaces), only a started job succeeds, an
outcome is final. `ContractSpec` is the refinement, with the mapping `PhaseOf`.

### InstallBatch

State: `install_batches` and `install_batch_items` (`batch`, `owner`, `item`,
`download`, `ordinal`, `priority`, `link`), the two jobs an item may have
(`install`, `cleanup`), jobs of other requests (`foreign`), the worker's main
thread (`main`, `mainBatch`, `mainApp`, `seen`), each download thread (`thread`,
`stop`, `target`) and API calls between their transactions (`asked`,
`cancelling`, `resetting`).

Three kinds of actors change a batch. API threads: `Ask` and `Submit` (the plan
is computed before the transaction that stores it, as a new batch or appended to
the owner's running one), `PauseDownload`, `ResumeDownload`, `Reorder`,
`SetParallel`, `CancelStart` / `CancelFinish`, `ResetStart` / `ResetWrite` /
`ResetEnqueue` / `ResetFinish`. Download threads: `BeginDownload`, `EndDownload`,
`AbandonDownload`, then `ThreadContinue` and `ThreadEnqueue`, for the app the
thread claimed. The main thread: the download manager's `StartDownload` and
`StopDownload`, `RunInstall` and its end, `AdvanceRead` and `AdvanceWrite` (or
`AdvanceInstall`, `AdvanceResetting`), `MainContinue`, `MainEnqueue`,
`MainCleanup`, `ReconcileItem`, `ReconcileBatch`. Every gap between two of these
is a gap between two transactions of the code. `WorkerCrash` and `ApiCrash` lose
what a process had in memory.

The job queue appears as what `JobQueue` proves of it: at most one active job
per app, one job per key. `installed` are the apps whose record says running or
stopped. Any job may change it, also one that no batch created (`Put`, `Remove`,
and `Leave` for one that fails); `removed` remembers what was taken away. Dependencies (`Needs`) are a constant, as the catalog
is. Not modelled: `InstallBatchStore.resume`, the batch states `paused` and
`queued` and the item state `running` (nothing writes them), the compatibility
path `reset()`, replays of a create key (they change nothing).

### AppChange

One app with an older release `r1` and the approved `r2`. A folder of it is in
up to four places: `live`, `original` (set aside), `restoring` (unpacked),
`discard`. What a folder holds is where it came from: `old`, a backup `b1` or
`b2`, or `new`, data that `r2` migrated. A start of `r2` on `r1` data migrates
all of it when healthy and any part when not. `added` are folders only `r2`
uses; every choice is tried.

Each step of `restore`, `put_back`, `update`, `undo` and `keep` is one action
with its failure: stop, rename (one folder at a time), switch of the deployment,
start, the note written and cleared, wiping (which may leave any folder). `Crash`
keeps the disk, the note, the deployment and the job's row, and loses `pc`,
`todo` and `task`, the note as the worker read it. A claimed-again job runs
from its beginning, which is where the code's recovery begins.

The API's own check of the note is left out on purpose: the worker checks again,
and without the API's check more orders of jobs are possible. `before` is
history: data and deployment when the note was made.

### CalendarSync

State: the stored bucket (`local`, `deleted`), the calendars in Nextcloud
(`remote`), the selected one (`connected`), the operation that holds the owner's
lock (`op`: nothing, a sync with its own copy of the bucket and what is left to
send, or the resolution of a conflict), a disconnection under way (`leaving`)
and history (`current`: the versions nobody replaced, deleted or gave up).

The text of an event is a version from a counter; Nextcloud's ETag is the
version the file holds. `Create`, `Update`, `Delete`, `KeepServer`, `KeepMine` are
the person's, `Remote...` those of other Nextcloud clients, `Connect`, `Export`,
`Import`, `Forget`, `Select` the connection's. A sync is `StartSync`, then one
action per request (`SendTombstone`, `SendEdit`, `SendNew`, with the request
applied or refused, and its answer received or lost), `Compare` for a deletion
that was unclear, and `EndSync`, which saves once. One owner is modelled: buckets
and locks are per owner. Deleting the stored secret and its metadata is one
step of `Forget`.

### ImageFetch

Two callers of one worker share the cache `runtime/image-cache`: the core job's
downloads ahead (a thread that is asked to stop but never joined) and an app's
own install; a batch's downloads use a directory of their own. State: per layer
the finished file (`blob`), the part file (`part`) and the ranges its
`.ranges` file calls complete (`marks`); what Docker has (`present`, `held`);
per call where it is and what it keeps in memory (`fetch`).

A call plans (`Begin`, `NoPlan`), prepares each layer (`Prepare`: resume or start
again), fetches with `Narrow` and then `Wide` threads (`Take`, `Receive`,
`Retry`, `Mark`, `Fails`, `Stopped`, `Widen`, `Joined`), checks (`Hash`,
`Rename`, `Unlink`), loads into Docker (`Load`, `LoadAgain`, `LoadFails`) and
removes (`RemoveFiles`, `Return`); a refused install falls back (`DockerPull`).
What a call has left to do is a set; the sorted list of blobs, the queue of ranges
and the caller's list of images say which comes first (`NextLayer`, `FirstRange`,
`NextImage`). The bytes of a range are right, wrong or a hole. `shared` is history: two calls
have overlapped. Left out: the connection budget, byte counts and rates,
registry sign-in, manifest parsing, `_mark`'s temporary file.

### Connectors and AppLife

`app` is one record per app: `rec`, the record in the control database; `box`, its
containers; `proj`, the files of its project; `data` and `pin`, the release its
data and its release record belong to; first-start settings, sign-in and more.
`routes` is the proxy's file, `serve` what Tailscale publishes, `queue` and `job`
the jobs. `link` is one record per connector: the owner's switch, the recorded
state, container, files, credential and gateway entry.

`Ask`, `AskBatch`, `AskConnector` are the requests with the guards of the
dashboard; `TakeUp` takes the oldest; each job goes through the steps of its
function (`Record`, `Render`, `Pin`, `Oidc`, `Up`, `Verify`, ... for an
installation; `TakeDown`, ... for a removal), each of which may fail. Between two
checkpoints one step happens: there the worker may die (`Dies`, after which the
job runs from its beginning) or the job be cancelled (`CancelRunning`). An
operation on a connector is one step of `Connectors` with every outcome its
commands can have (`Connect`, `Halt`, `Followed`), death included.
`Reconcile(a)` is the idle worker's look at an app's connectors. When the proxy's
file is written (`Rewritten`), the containers of an app that is neither running
nor stopped by its record may be unreadable, and its address is left out. A
connector that is recorded as prepared, or as waiting for its credential, counts
as one that does not run (`Idle`), also when its container is up.

Left out: `switch_compute`, built-in connectors, per-person copies (in
`Access`), notes of a change and backup holds, which refuse requests earlier
(in `AppChange` and `BackupHooks`), the disconnection of a calendar (in
`CalendarSync`).

### BackupHooks

One app, its backups by Kopia, and three actors: Kopia's server, the API thread
of its newest call, and the worker. `hold` is the hold of a backup with its
age, `job` and `asked` the job of a call and how it went, `folder` the live
folder and those the server sees and the worker knows, `note` a restore in
progress, `policy` and `chosen` the schedule in Kopia and in Settings.

`BeforeHolds`, `BeforeReady`, `BeforeFails`, `BeforeGivesUp` are `before`;
`AfterCalled`, `AfterEnds` are `after`; `UploadEnds`, `UploadFails` Kopia;
`BackupStop`, `BackupStart`, `OwnersStop`, `OwnersStart`, `RestoreRefused`,
`RestoreSwaps`, `RestoreEnds`, `Recover` the jobs; `OwnerAsks`, `OwnerRetries`,
`OwnerCancels` the owner's requests, retries (which look for no hold) and
cancellations (a running job ends at its next checkpoint, its command done or
not); `ChangedByAnother` the start of another app that needs this one and the
voice switch, which look for no hold either; `meddled` is history: such a job came
after the newest hold. `Reconcile` the worker's pass (stuck apps,
recreation of the server, the schedule), with the server's answer or without;
`ApiDies`, `WorkerDies`, `KopiaRestarts` the faults. `before` writes its hold and
queues its job in one step, and an owner's request is checked and queued in
one; `UPLOADING` is Kopia being busy. Left out: the export of Mu3Lab's own
state, media sources, one-off commands on the repository with their locks, the
weekly check, a recreation that fails.

### People and Access

State of `People`: Authentik's accounts (`account`), browser sessions
(`session`), `hold` and `task` (the tables `access_holds` and
`access_revocations`), a change between its record and its calls (`change`,
under `people.lock`), the two runners of `access.run` with the rows they read
(`runner`), and the credentials issued (`creds`). `demotion` is history: per
person `kept` while a demotion is neither finished nor taken back, `lost` after
one of the three steps that lose it. The calendar's key and its tools in
ContextForge are two credentials, since a failure can separate them.

`Deactivate`, `Demote`, `Promote`, `Reactivate` are the parts of
`people.change` before its calls, `SetRole`, `RecordAgain` and `LetBackIn` what
follows, with the failure of any call and the API's death in between (`ApiDies`);
`ReadDue`, `ReadAsked`, `Handle` and `MarkRow` are a runner: rows read once, then a call and its record for each, in
the order recorded. `Access` adds the worker's passes: each reads the household,
then gives and takes (`SyncCopies`, `MakeCalendarKeys` with `SyncCalendar`,
`SyncVoice`); `SyncChat` is one
step because it holds the lock that the chat revocations take.

`Follow` and `Watch` choose which credentials and which revocations an instance
follows: each comes and goes by itself, so a run with some of them is a
projection of the run with all. The delay before a retry is left out; failures
are bounded by `MaxSetbacks`. The first states are a household of administrators
of whom some were just demoted while Authentik did not answer.

### HostSetup, Rebuild and CoreSetup

`host` is a record of facts about the computer: for each, what a check of the
installer reads and what a command changes. `run` walks through the installer's
steps: a check, the commands that fix what it found, in order, and the check again
(`HostSetup`). A command may fail, a run may die after any; the next
`./install.sh` has only the computer to go by, and perhaps a newer checkout.
Checks in a row that find everything ready are one step.

`Rebuild` is the step of `--restore`: targets taken one by one, each with its
record of ownership before the first byte and its seal after the last;
clearing an interrupted attempt; the marker that an ordinary run refuses to
pass. `CoreSetup` composes both with the provisioning record, the core job from
`Launch` to its verdict (`CoreDone`, `CoreFails`, `CoreVerified`, `VerifyRuns`),
the owner at the dashboard, and `Resume`, which starts the old computer's apps
once. The installation of one core app is one step.

### SelfUpdate

State: the version of the checkout, its packages, its dashboard and units
(`disk`), the control database as one value of schema, job and accepted work
(`db`) and its copy (`copy`), what systemd keeps up (`units`, `bounce`), the API
(`api`), the worker (`worker`) and the guard (`guard`) with their place in
`_update` and in the guard's `rollback`, the result file (`result`).

`Check`, `Download`, `Assets`, `Packages`, `Plan`, `Install`, `StartGuard`,
`Restart` and `UndoTree`, `UndoPackages` are the job; `Watch`, `Judge`, `Stop`, `PutBack`,
`CodeBack`, `PackagesBack`, `Rebuilt`, `StartBack`, `WatchBack` the guard. A step may fail,
the owner may cancel, the lease may be lost, the worker may die, the computer may
go down. A cancellation stops the job before the checkout only: what follows is
uncancellable, and no checkpoint comes between it and the report. The guard may
not start: its unit fails, which the job reports with the way out, or its files
cannot be written, which only the worker's last containment catches (`NoGuard`,
`told`). Each guard is a unit of its own, so that the second execution which a
restored database begins launches one beside the guard that still watches what
it put back (`guard.older`, `OlderWatches`). A put-back that fails ends the
guard with no word and the services down. One release is asked for once; what it is like (it starts or not, it
migrates the database or not) is chosen at the beginning. Other jobs and rows
are the value `work`. A deadline of the guard that passes too early is a free
choice; packages of another version may start the code or not.

### AiRouting and DuplexSwitch

Records (`chat`, `voice`, `provider`, `secret`), the files rendered from them
(`file`) and what the running gateway and proxy were started with (`live`) are
three things: the model keeps them apart. A job (`queue`, `run`) saves, renders,
starts the gateway, then the proxy, probes, and rolls back when one of these
fails; `Cut` is a worker that dies or a cancellation, after which the job runs
again from its beginning. There is one local model, one provider, and one service
each for the jobs of the settings and of the provider. `Write` renders the two
files, one after the other, and may fail before, between or after them: then the
reconciliation failed, or the provider's whole job did. A failing `up` may or
may not have recreated the container.

`DuplexSwitch` adds what runs on the card (`up`), the switch both ways
(`Choose`, `Remember`, `StartOmni`, `Warm`, `Tell`; `Retract`, `PutBack`, `TellBack`, `Down`,
`CardFreed`), the refusal of other starts (`StartRefused`), and the agent's settings file,
which the switch, the worker's upkeep (`Sync`) and the page (`PageReads`,
`PageWrites`) all write. Every step of the switch can fail: an app that will not
stop may be down nevertheless, writing the agent's file may fail on the way in
(`Tell`, which goes back) and on the way out (`TellBack`, which ends the job
before an app is started), and the check of the card passes when `nvidia-smi`
fails or sees nothing (`CardFree`). The owner's stops and starts are whole jobs
between two executions. Histories: `wish` (the apps the owner wants up), `missed`
(those named to the owner because they did not start), `spent.lost` (those a
failure left down with nobody told) and `spent.unseen` (what ran when the check
passed); and in the records of executions `fresh` (the gateway and the proxy
were on their files when it began) and `honest` (the record of chat was true then).
Left out: the embedding model, the choice of a runner, removal of a model from
disk, "Try it", a resource lock that stays busy (a failure like others).

## The runs

Each run asks what a component must keep. Bounds are constants of the modules,
each in a guard and in the `.cfg`. States are distinct states.

| Run | Instance and bounds | States | Shows |
| --- | --- | --- | --- |
| `JobQueue_jobs` | 2 jobs of which 1 is left from an older release, 1 service, 1 caller, 1 key, 2 workers, lease, deadline and give-up 1 tick, 2 commands per job, 1 fault | 188 k | `RunsAlone`: no worker runs beside another or a recorded command. `OneActivePerService`. `NothingAfterCancel`, `CancelledNeverRestarts`: a cancelled job starts nothing more. `JobsFinish`. `ContractSpec`: the refinement |
| `InstallBatch_batch` | 1 batch of web or tool (web needs base), 2 requests, 1 other event (reorder, pause, foreign job, cancel or crash), 1 reset | 462 k | `OneSetupPerBatch`. `EndStatesAreTrue`: a cancelled batch keeps nothing to claim, a successful one is complete. `DependenciesFirst`: what is missing was taken away since. `BatchEnds` |
| `ImageFetch_fetch` | 2 callers, 2 images that share a layer of 2 ranges, 2 calls, 2 retries, 1 then 2 threads, 2 failures or deaths | 693 k | `CacheIsSound`: finished files are whole, marked ranges were received, finished ranges are not fetched again, a call alone never breaks. `FetchEnds` |
| `AppChange_changes` | 2 folders, 4 jobs, a failure at any step, any number of crashes | 1.2 M | `ChangesCanBeUndone`: while a note stands the old data can be put back; damage is noted. `PutBackIsExact`. `SuccessIsWhole` |
| `AppLife_life` | 2 apps, 1 needs the other, 2 connectors of it, 2 releases, all 13 actions, 3 requests, 1 failure, cancellation or death | 264 k | `ReportsAreTrue`: a job that succeeds did what it says, removed apps leave nothing, addresses stay while Docker answers. `DataKeepsItsRelease`. `ToolsAreRight`: one connector per app, and it follows |
| `BackupHooks_backups` | 2 backups, 2 requests, retries, cancellations or jobs of others, 1 change of schedule, 1 failure or death, 1 restart of the server | 680 k | `CopiedAtRest`: its folder the checked one for the whole copy, and the app stopped unless a job that looks for no hold is let at it. `AppsComeBack`. `ScheduleFollows` |
| `CalendarSync_safe` | 1 event, 2 calendars, 3 versions, 2 faults | 1.0 M | `NoTextLost`. `ConflictsWait` |
| `Access_household` | 1 person beside akadmin, 2 runners, 3 revocations, 4 kinds of tools, 2 changes, 1 failing call or death | 753 k | `TasksHaveAHold`. `DemotionIsKept`. `RevocationsEnd`. `ToolsFollowTheHousehold` |
| `CoreSetup_setup` | a computer without Docker, with and without `--restore`, 2 versions (a computer is rebuilt or pulls, not both: `Mixed = FALSE`), 1 failure or death, 2 core jobs, 1 optional app | 471 k | `GateHolds`: the dashboard is never open. `RebuildIsClean`: one computer's secrets, nobody's files. `StartsOnce`. `ReadyMeansCurrent`. `SetupHeals` |
| `SelfUpdate_update` | 2 failing commands, 1 reboot or death, 2 executions of the job | 267 k | `EndsWhole`. `ResultIsTrue`. `WayBackIsSafe`: no accepted work is lost, only what is whole is started. `BothEnd` |
| `DuplexSwitch_assistant` | 3 chat and 3 voice settings, 1 provider, 2 apps with a GPU build, 2 changes, 2 failing commands, 1 execution cut short | 1.7 M | `RecordsAreKept`: a true record stays true, removed keys gone. `SuccessIsServed`. `CardIsShared`: no model the check could see beside another, the apps come back or are named or in the list of those lost, the agent's file follows |
| `DuplexSwitch_private` | 2 chat settings, 1 change, 1 execution cut short | violated | `PrivacyIsServed`: see [below](#where-the-code-and-its-documentation-disagree) |

No run checks for deadlock: once the budget of a bound is spent the models stop,
and the system itself rests when nobody asks for anything.

Why these bounds are enough to be interesting:

- **JobQueue.** Each property is about two of something: two jobs of a service,
  two requests with a key, two workers, a worker and the command of a dead one.
  One tick of lease makes a lease run out between any two steps. Two faults
  would need a third worker to say anything new; the theorems cover them.
  `GiveUpTicks` equal to `LeaseTicks` is the last moment at which the code
  notices a lost lease, the worst case.
- **InstallBatch.** Three apps are the least with a dependency, a second claim
  and something unrelated to both; a second request is appended or refused. A
  property that fails needs one disturbance: `MaxEvents` shares one among
  pause, reorder, other job, cancel and crash, so that all five fit; a reset
  has a bound of its own, as it ends what one of them left behind. `Selections`
  keeps the requests apart: one asks for web and thereby base, one for tool.
- **ImageFetch.** A layer of two ranges is the least with a hole; two retries
  the least with a retry; two threads the least with an error of another
  thread; two calls the least with a resumption, or with a shared cache.
- **AppChange.** Two folders are the least with a swap that is half done, and
  one of them may be a folder only the newer release uses. Four jobs are a
  failed update, its recovery, which may itself die, and a change after it.
- **AppLife.** Three requests are an installation, something that goes wrong
  with the app, and what the owner does next. Releases differ in their data
  folder, the case in which following the checkout would lose it.
- **BackupHooks.** Two backups are the least with an old hold and a new call;
  two requests are a restore that dies and its recovery, a start that fails and
  its retry, or a start and its cancellation.
- **CalendarSync.** One event is enough for the event's own races: records,
  tombstones and files are per event, and the loop of a sync goes through them
  one by one. The theorem is for any number. Three versions are an original,
  an edit here and an edit there; two faults are a lost answer and a crash in
  the repeated sync.
- **Access.** Holds, tasks and tools are per person; what others change is the
  last effective administrator, whom `Akadmin` stands for. Two changes are a
  demotion or deactivation and what takes it back while a runner works. The
  theorems are for any number of people, changes and failures.
- **CoreSetup.** One trouble reaches every place where a run can die, and the
  run after it repairs what it left; a second version makes every check of the
  second run meet something older. Two core jobs are the old computer's and
  this one's, or the installer's and the owner's. `Mixed = FALSE`
  keeps a rebuild and a pull on different computers, which bounds the run; the
  theorems hold for both.
- **SelfUpdate.** Two failures are one of the update and one of its way back.
  With one reboot or worker death and a second claim the restored database's
  job runs again.
- **DuplexSwitch.** Two changes are a setting and its opposite, or a switch and
  a provider; two failures are one of the change and one of its rollback. Two
  apps with a GPU build tell one that runs from one that does not.

Each property of a passing run has a mutant in `PROJECT.json`: a definition with
a plausible bug (a dropped guard, an order changed, a write forgotten) that
makes TLC find the property violated under the same configuration.

## Fairness

- `JobQueue!Fairness`: `WF(Tick)` and `WF(Program(w))` for each worker. systemd
  starts a worker again (`Restart=always` in `deploy/mu3lab-worker.service`) and the operating system
  schedules it, and time passes, so leases and deadlines run out. Nothing is
  assumed of callers, of commands (they may hang until the deadline), of
  heartbeats (they may never run) or of faults. Only weak fairness is used: no
  step of the worker's loop can be disabled again and again by others without
  the loop going on elsewhere.
- `InstallBatch!Fairness`: weak fairness of the worker's loop as a whole (it
  takes one step after the other, whichever is next), of the download manager
  and each thread, and of API calls already accepted. Jobs and downloads end
  because each has a timeout in the code. No owner is obliged to do anything.
- `ImageFetch!FetchFairness`: a call that was made goes on. Every request has a
  timeout and a number of retries.
- `AppLife!FairLife`: the worker's loop and, while it is idle, its look at each
  app's connectors (`mcp_ops.reconcile_lifecycle` runs in every pass).
- `BackupHooks!Fairness`: the API answers calls, the worker runs jobs and its
  pass, with an answer of the server (it may be unanswered, but not for ever);
  a copy ends; time passes.
- `Access!AccessFairSpec`: the worker's passes, its reading of what is due, each
  runner's next row, the API's first reading after a change, and the second
  half of a change.
- `CoreSetup!Fairness`: the installer goes on while it runs. Strong fairness of
  its owner: they run `./install.sh` again until it is ready, log in, and free
  a port the installer names. The claim is that repetition is enough, so
  repetition has to be assumed; it is strong because a run that is under way
  disables the next.
- `SelfUpdate!FairSpec`: the worker's and the guard's steps, and a service that
  was asked to stop stops (systemd kills it).
- `DuplexSwitch!Fairness`: the worker's loop, its upkeep, and a page's request
  once it has read.
- AppChange and CalendarSync make safety claims only: what a household waits for
  there, it has to ask for again itself.

## The proofs

Each module `XProofs` holds the theorems about `X`, `LifecycleProofs` those about
`AppLife` and `SelfUpdate` (others about more than one component say so below); every leaf is checked by Z3,
Zenon or LS4 and nothing is assumed beyond the `ASSUME`s of the modules.

### The job queue

Assumptions: every command is about a service; the null values are not members
of the sets they stand beside; `Legacy` is a set of jobs and no command is a
job; the ticks and bounds are naturals, the lease at least one tick and not
shorter than `GiveUpTicks`. The numbers of jobs, callers, keys, services and workers
are arbitrary.

| Theorem | States | Argument |
| --- | --- | --- |
| `TypeCorrect` | `[]TypeOK` | one step per action |
| `OneWorkerRuns` | `[]RunsAlone` | `AloneInv` |
| `OneActiveJob` | `[]OneActivePerService` | inductive beside `TypeOK` |
| `KeyCreatesOneJob` | `[]KeyCreatesOnce` | `KeyInv` |
| `CancelledSoonStops` | `[]NothingAfterCancel` | `QuietInv` |
| `NoRestartAfterCancel` | `CancelledNeverRestarts` | `CancelInv` |
| `QueueImplementsContract` | `ContractSpec` | refinement |

- `RunsAlone` says nothing of workers that do not run yet, so it is not
  inductive. `AloneInv` adds `LockHeld` (whoever is past the lock holds it),
  `SettledInv` (from settling to the end of the run no other worker's recorded
  command is alive: commands are started only under the lock) and `RunsAJob`.
- `KeyCreatesOnce` is about rows. A second creation is stopped by the memory of
  requests, so `KeyInv` adds `KeyRemembered`: a row with a key is remembered
  under its caller, namespace and key, and stays so.
- `CancelInv`: a job whose cancellation was requested is running or over. A
  claim of a running job whose lease ran out finds it in `Abandoned` and ends it
  instead.
- `NothingAfterCancel` counts; that the count stays at one needs `StillRuns` (the
  job of a running worker is running or was cancelled, because no other worker
  can end it) so that a checkpoint does see the request, and `QuietInv`: once a
  command was started late, whoever stands behind its checkpoint is shielded.
- The refinement maps a job's state by `PhaseOf`. Three lemmas carry it:
  `ViewEnds` (a set of jobs ended together is the contract's `End`),
  `ViewAccepts` (a creation, with the waiting job it may supersede, is `Accept`;
  it needs `OneActivePerService`), and `ViewStep`, which takes each action of
  the queue to a step of the contract or to none.

### The calendar

Assumption: the default calendar is one of the calendars, the null values are
outside their sets, the bounds are naturals. Events, calendars, versions and
faults are arbitrary.

| Theorem | States |
| --- | --- |
| `CalendarTypeCorrect` | `[]TypeOK` |
| `NoTextIsLost` | `[]NoTextLost` |
| `ConflictsAreKept` | `ConflictsWait` |

`NoTextLost` is far from inductive: a sync works on a copy of the bucket it read
at its start and replaces the stored one at its end, and what it sends goes out
with versions read earlier. `IInv` adds

- `CurrentOK`, `RemoteOK`: no version is held that was not drawn yet;
- `StoreOK`: a copy of Nextcloud's that was not edited holds a text that is
  still there if it is current; the version an *edited* copy was made from is
  no longer current, because the person who edited it replaced it; the same of
  a tombstone's;
- `ExportOK`: what a disconnection exported is still there if it is current;
- `OperationOK`: the same of the sync's own bucket and tombstones; and what it
  dropped from its bucket arrived or is no longer current, what waits for the
  person it does not touch.

The heart is the lemma `TextsStayOrNew`: every step leaves every text that was
in Nextcloud and stays current where it is, and texts that become current are
newly drawn. A request of a sync can only replace the version it names, and
that version is not current (`StoreOK`), or put a new file where none was; a
resolution names the version the person saw and gave up. From it, the lemmas
`Stays`, `StoreSame`, `ExportSame`, `OperationSame` and `TextsSame` give each
conjunct that a step does not touch, `Ends` the saving of a bucket and `GoesOn`
an answered request; one lemma per group of actions gives the rest. TLC
checked `IInv` on the bounds of `CalendarSync_safe` before it was proved.

### Changes of an app

Assumption: the folders are a finite, non-empty set and `MaxJobs` is a natural.
Folders, which of them the new release adds, jobs, failures and deaths of the
worker are arbitrary.

| Theorem | States |
| --- | --- |
| `Invariance` | `[]IInv` |
| `NothingIsLost` | `ChangesCanBeUndone` |
| `PutBackIsComplete` | `PutBackIsExact` |
| `SuccessLeavesItWhole` | `SuccessIsWhole` |

`Recoverable` says that the old data is somewhere; why the next job will find it
there is in `IInv`:

- `ControlInv`: which job is at which place, and what its note is then. A job
  that finds a note takes it over (`task = note`); one that finds none but
  folders kept aside makes up a note without a deployment.
- `NoteInv`: what a note promises of *each* folder. Of a restore: a folder of
  the note is as before, or its original is kept aside and is as before; any
  other folder was not touched. Of an update: until its backup is taken nothing
  was touched, after that the backup is of every folder as before.
- `RestInv`: what holds without a note, which is what the next change starts
  from. Folders kept aside belong to the installed deployment (so a recovery
  finds them), data of release r2 has every folder only r2 uses, and an app on
  r1 has some data.
- `RestoreInv`, `BackInv`, `UpdateInv`, `UndoInv`: what each place relies on; of
  the loops, which folders are done and which are not yet.

One lemma per place of the code takes `IInv` to `IInv'`. What the disk operators
do is stated once, folder by folder (`RenamedIs`, `WipedIs`, `UnpackedIs`,
`MigratedIs`, `StartIs`), so that the loops need no induction: the turn's folder
changes, the others do not. `NoteKept` is the frame lemma of `NoteInv` and
`RestInv`. TLC checked `IInv` on the bounds of `AppChange_changes` first.

### Backups of a running app

Assumptions: the default schedule is one of the schedules, the bounds are
naturals. The theorem `CopiesAreAtRest` states `CopiedAtRest`: types, an app at
rest, the folder that was checked, and when a hold may go.

`HeldMeansStopped` speaks of the copy; what makes it true happened in the call
before. `IInv` adds

- `CallInv`: a server that copies has no call being served, and a call is one the
  server still waits for or one it gave up by restarting;
- `HeldInv`: while an app that ran is held, the server was checked against its
  live folder and no restore or recovery is at work, retried or not: a claim
  refuses them under a hold. Unless a job came that looks for no hold
  (`meddled`), the record is not *stopped* and the app's only job is the hold's;
- `StoppingInv`: while the call waits, the stop is on its way or over; if it
  succeeded the app is down and has no job, so nothing is left that could start
  it between the answer and the copy;
- `CountInv`: a restore makes at most one folder, because one whose worker died
  is refused; without it the type of the folders cannot be shown.

`CopiesKeepTheirHold` is an action property: the upkeep lets a hold go under a
copy only when its poll was not answered, which `Stuck` allows only for an old
hold.

### Install batches

Assumptions: the dependencies are sets of apps, the null values are outside
their sets, the apps are finitely many and the bounds naturals. Apps,
dependencies, owners, batches and bounds are arbitrary.

| Theorem | States |
| --- | --- |
| `Invariance` | `[]IInv` |
| `OneAtATime` | `[]OneSetupPerBatch` |
| `TrueEndStates` | `[]EndStatesAreTrue` |
| `NeedsComeFirst` | `DependenciesFirst` |

A claim is one transaction and its job another, so between them the batch
depends on what a thread remembers. `IInv` is the conjunction of `Core`, the
types of the other variables (`RestTypes`) and the numbers of the items
(`Numbers`). `Core` says

- `Promised`: whoever owes an item its job works on an item no job of which
  exists and which only `begin_reset` changed since, so that creating the job
  late restores a state of one claim. It rests on `Unclaimed` (an item nobody
  has claimed has no job) and `OneClaimant` (one caller of `continue_batch` at
  most holds a claim of a batch);
- `LinkedAtWork`: an item whose job is not over is not one `begin_reset` would
  clear, so the job that ends is still the one its item names;
- `Recorded`: the outcome `advance_for_job` read is still the outcome, and the
  item still one to record, when it writes in its second transaction;
- `CleanedOnce`: an app about to be cleaned up is owed no installation;
- `NoCleanupYet`, while no clean-up was asked for: a batch that succeeded set up
  every one of its apps. Afterwards this is false (see `SuccessIsComplete`).

`Core` is kept action by action (`ThreadClaimsCore`, `MainEnqueueCore`,
`ResetWriteCore` ...): each lemma first says what the action does item by item,
then one conjunct at a time. `CoreStep` puts them together with `Kept`: only a
request adds items to a batch. The numbers need arithmetic about cardinalities:
`NextNumber` is a number at most the size of the batch (`NextNumberIs`, by the
least number above all those in use, `Least`), so appended items stay below the
new size (`RankedIs`, `AppendedIs`). `Closure` is the least set closed under the
dependencies, not an iteration, so that nothing recursive stands in the way.
TLC checked `IInv` on the bounds of `InstallBatch_batch` before it was proved.

`NeedsComeFirst` adds `DepsInv`: whatever reports success is an app that is or
was installed (`DoneReached`); a plan, and a batch, has what its apps need or it
was installed at the time (`Planned`, from `PlanHasNeeds`: a closure is closed);
and whoever is about to create a job works for an app all of whose needs were
met when it was claimed (`OwedReached`). No step takes an app out of
`installed \union removed` (`ReachedGrows`), so a claim made in one transaction
is still sound when the job is created in another (`CreatedIsOwed`).

### Self-update and its guard

Assumption: the bounds are naturals.

| Theorem | States |
| --- | --- |
| `Invariance` | `[]IInv` |
| `UpdateEndsWhole` | `[]EndsWhole` |
| `ResultTellsTheTruth` | `ResultIsTrue` |
| `WayBackHolds` | `WayBackIsSafe`: `[]TypeOK`, `WorkKept`, `StartsWhatItRestored` |

Worker, guard, systemd and the owner take their steps in any order, so what a
place of the worker or of the guard may rely on is the invariant:

- `ServicesInv`: no service runs from the time the guard found them stopped to
  the time it starts them, and a restart is under way only after the job ended;
- `JobInv`: the job waits for nobody after its first claim, and whoever executes
  it while it runs owns it; the copy is whole from the checkpoint on;
- `DatabaseInv`: an execution that begins on the old code begins on a database of
  the old schema, so every checkpoint has it; the database is not whole only
  while the guard puts it back, or after it died over it, and then nothing runs;
- `TreeInv`, `BackInv`: which code the checkout has, place by place, and what the
  guard has put back. A dashboard of the old code in the watch is one that the
  restart has still to stop;
- `CalmInv`, for a first execution in which no computer or worker goes down and
  nobody was told that the update could not be finished or guarded: the versions on the disk at each place. This is what `EndsWhole` needs and a
  weaker invariant cannot give: a step that fails is undone by later ones.

Each lemma `...Keeps` first says what its action does, field by field, and then
goes through the parts it can disturb. `WorkHolds` rests on `DatabaseInv` (work
is accepted and served only while the database is whole) and on
`CheckpointSafe`, the guard's comparison. TLC checked `IInv` with 3 failures, 2
reboots and 3 executions before it was proved.

### The assistant: routing, keys and the graphics card

Assumptions: the settings an owner chooses from are settings of the code, the
apps with a GPU build are finitely many, the model runner is one and the
full-duplex model is none, the bounds are naturals. Settings, apps, asks, failing
commands and executions cut short are arbitrary.

| Theorem | States |
| --- | --- |
| `Invariance` | `[]IInv` |
| `RecordsKept` | `[]RecordsAreKept` |
| `SuccessServed` | `[]SuccessIsServed` |
| `CardKept` | the safety part of `CardIsShared`: `[](TypeOK /\ OneModelOnCard /\ AppsAsWished /\ LosesAtMostOne)` |

What a job claims at its end was made true by steps long before, through two
files and two projects that read them only when they start. `IInv` adds

- `PlaceInv`, `QueueInv`: which job is at which place, in which round of
  rendering, and what the setting it changes is then; two services have at
  most one job each, so a key saved while a provider's job runs is impossible;
- `FileInv`: what the files say is what the records say once they are written,
  or a key was saved since and its own job waits (`SaveWaits`);
- `StepInv`: what runs is in step with the files, or the difference is among
  what this execution wrote and has still to restart (`run.wrote`). This is
  about executions that began in step (`fresh`) and is where the finding below
  would break it: a second execution finds nothing to write;
- `VerifiedInv`: a connection that was verified is rendered once more, which
  changes nothing, so that the failure of this last rendering leaves it served;
- `HonestInv`: while chat is being changed, what runs serves the setting before
  or the one wanted; a rollback that fails records the weaker of the two;
- `RemovalInv`: a connection is forgotten after its key is out of the store, the
  file and the gateway, in that order;
- `ModeInv`, `CardInv`, `StoppedInv`: the mode at each place of the switch, when
  the model is surely off the card, and that all stopped apps but the last one
  are noted in the record;
- `WishInv`, `LostInv`: without a cut, only what the owner wants runs or is
  held; the apps the owner wants that neither run, nor are held by the
  execution or the record, nor were named, nor are among those a failure lost
  (`spent.lost`), are no more than the cuts.

The proof separates the two sides: `QuietKeepsSwitch` (a step of the routing
that touches no app) and `SwitchKeepsRouting` (a step of the switch that
touches no record), so that each action is argued on its own side only. The
actions of the routing have one lemma for each outcome. `AppsAsWished` and
`LosesAtMostOne` are both read off `LostInv`, the first with no cut at all:
nothing else is lost. Every failing reconciliation has lemmas of its own
(`LeavesBehind`, `NotReconciledKeeps`): it may leave files and proxies apart,
after which nothing is claimed of executions that find them so.

The attempt found `SuccessIsServed` too strong. It said that no key is routable
which the records do not allow, and step by step that could not be kept: a key
may be saved while a job of chat runs, between its rendering and its last step.
TLC then found the behaviour with three changes (the run has two): the removal
of a connection is cut short and cancelled, chat is set to local only, and the
new key arrives between that job's files and its end. The old key is routable
until the saved key's own job runs. The property now says so.

TLC checked `IInv` on the bounds of `DuplexSwitch_assistant` and simulated
larger ones before it was proved.

### Core setup and the rebuild

Assumption: the bounds are naturals, the first version is one of the versions.
Engines, ways to call the installer, apps, jobs and troubles are arbitrary, and a
computer that is rebuilt may pull a newer version or not (`Mixed`).

| Theorem | States |
| --- | --- |
| `SetupInvariance` | `[]IInv` |
| `SetupStartsOnce` | `[]StartsOnce` |
| `RebuildsAreClean` | `RebuildIsClean` |
| `GateInvariance` | `[](IInv /\ GateInv /\ InstalledInv)` |
| `GateIsHeld` | `GateHolds` |
| `ReadyIsCurrent` | `ReadyMeansCurrent` |

Nothing the installer does next depends on what it did before, only on the
computer it finds. What may be on it then is the invariant:

- `RunInv`: the commands that are left are commands of the step the run is at
  (`CommandsAt`), so only one step makes secrets and one registers the account;
- `MadeInv`: without a rebuild what is there was made here (`new`), during one it
  came from the other computer (`old`) and the run is not past the rebuild's
  step, after one all of it did; the worker runs only on a computer past that;
- `PlanInv`: what is left of a rebuild is a suffix of its plan, and `LeftInv`
  what the part already done has brought: once the secrets' folder is
  sealed they are old, the same of the owner's and the vault's; until the database is
  moved into place the staged copy is whole;
- `FilesInv`: each target is in one of its states;
- `JobsInv`: at most one job is pending, and a worker's own is that one;
- `StartedInv`: an app was started only after a rebuild and a succeeded core job.

The places of the plan are arithmetic on positions (`PlanIs`, `OrderIs`,
`TakenIs`), stated once and without an induction: `Taking` maps a number to a
target and one of three things to do with it. Of the steps of a rebuild each
has a lemma `...Keeps`; what an interrupted attempt leaves is of its own making,
so that clearing it is `FilesKept`. The least remaining step the installer
stops at is `NextStop`, by the well-foundedness of the numbers.

That the dashboard is never open and that ready means current (of what the
installer compares with the checkout) take more: the
configuration file, the running Caddy, what Authentik was configured for and the
stamps are written by different commands, and a run may die between any two.
`GateInv` adds to `IInv`

- `PastInv`: nothing is of a version that was never checked out, so that a pull
  makes every stamp old;
- `GatedInv`: a configuration that asks for sign-in is one Authentik was
  configured for, except in a rebuild between its folder *projects* and its folder
  *identity*; there the computer is not set up yet, and Caddy does not run;
- `StampInv`: a service stamp of this version means that the worker is of it, and
  the API too or stopped; a boundary stamp, that Caddy is or does not run;
- `OrderInv`: a command that relies on another's effect finds it, or the other is
  still before it in the same fix (`First`, `FixesOrdered`): a run that died never
  goes on in the middle of a fix;
- `ReadyInv`: what the check of a step found (`Left`) is so until the end of the run,
  as the commands of the later steps do not undo it. This is why the installer may
  say ready without looking again.

`AfterIs` says once what each command leaves of the fields these parts are about
(`Becomes`), `ReadyIs` what each check means; then there is one lemma per
kind of step (`...Gate`). `InstalledInv` is for `CoreAppsAwaitTheGate`, which
speaks of a count that grows. TLC checked `IInv` and `GateInv` on the bounds of
`CoreSetup_setup`, and with `Mixed = TRUE`, before they were proved.

### Access

These theorems are in `CoreSetupProofs`. Assumptions: the followed credentials and revocations are among those of the
code, withdrawal of the role is one of them, the runners are the worker's loop
and the API's thread. Household, changes and failures are arbitrary.

| Theorem | States |
| --- | --- |
| `RevocationsBelong` | `[]TasksHaveAHold` |
| `DemotionsStayDue` | `[]DemotionIsKept` |

`DemotionIsKept` is not inductive: whether a reactivation records the demotion
again depends on what it remembered before it released the deactivation, and on
nobody else having written a hold since. The theorem is about a history that
takes out the losses the code has (`NoDemotionIsLost` in the table below): it
says there is no fourth. `HoldInv` adds `HoldTypes`, `RunnerTypes`
and `ChangeInv`: while a reactivation is between its halves, the person's
deactivation is released (the change holds `people.lock`), so that recording the
demotion is not refused as the weaker hold; only a reactivation remembers one.
`RecordKeeps` and `ReleaseKeeps` say what the two writes of `access.py` do to
the invariant's parts; `ChangesKeep` goes through the changes, `RunnersKeep`
through reading, handling and marking, where a runner's stale row may name a
hold that is gone, `DeathKeeps` through a death of the API; `AccessStepsKeep` adds the passes, which touch none of it.

### Image downloads

These theorems are in `InstallBatchProofs`. Assumptions: the calls have finite
lists of images, layers come in one finite order and have at least one range,
and there is at least one thread and one attempt. Callers, images, layers, which
of them Docker lists, calls, failures and deaths of the worker are arbitrary.

| Theorem | States |
| --- | --- |
| `FetchInvariance` | `[]FetchInv` |
| `CacheStaysSound` | `CacheIsSound` |

`CacheIsSound` speaks of files; what makes it true is in the memory of calls and
threads, and the death of the worker takes that away between any two writes.
`FetchInv` adds

- `CallTypes`: no more threads at work than alive, nothing left over from the
  phase before; it holds also of calls that overlap;
- `Cache`: of one call at a time, finished files are whole and marked ranges
  have bytes, at every step and not only between calls;
- `RestOpen` and `Apart`: what a call still fetches is neither marked nor fetched
  by it, and by one thread at most, which is why nothing is fetched again;
- `Landed`: what a thread received and has not marked yet is in the part file;
- `There`: from preparation to loading the files a call needs are there, so that
  none of its steps ends with a missing file.

`FirstIs`, `NextLayerIs` and `FirstRangeIs` say that what comes first in an order is one of what is
left, from the well-ordering of the naturals (`Least`); `OneMoves` reduces a
step to the call that makes it; there is one lemma per step of a call, and
`OverIs` and `OverNext` say what holds of a call that ended, however it ended.
TLC checked `FetchInv` on the bounds of `ImageFetch_fetch` before it was proved.

### The life of an app, and its connectors

These theorems are in `LifecycleProofs`. Assumptions: finitely many apps and
connectors, no name for both, at most one preferred connector per app (as the
catalog has it); what an app needs includes what those need, and not itself.
Apps, connectors, requests, failures, cancellations and deaths are arbitrary;
releases are the one that is approved and the next.

| Theorem | States |
| --- | --- |
| `LifeInvariance` | `[]LifeInv` |
| `ReportsHold` | `ReportsAreTrue` |
| `DataStaysWithItsRelease` | `DataKeepsItsRelease` |
| `OneConnectorThroughout` | `[]OneConnectorPerApp` |

A job reports success at its last step, and what it reports was done by the
steps before, between which it may have died and begun again. Nothing about the
last step alone makes the report true. `LifeInv` adds to the types

- `Good`: the connectors' records are whole, one per app at most is switched on,
  and what runs has its files;
- `Placed`: of every app at every time, only installed files have containers,
  a route, an address or a record that says so, and the data is of the release recorded
  unless the release record was dropped;
- `QueueInv`: jobs that wait are whole and have not begun;
- `PlaceInv`: what holds of the job's app at each place of the job (`AtNeeds`,
  `AtControl`, `AtInstall`, `AtUninstall`). `FromRecord`, `FromPin`, ... `FromHalt` are
  the places after a step of an installation, `FromDown`, ... those of a removal, so
  that what a step did is said once and kept until the end. A death takes the job
  back to `begin`, where none of it is claimed.

The connectors are followed one after another: `Followings` is what a pass over a list of them can
leave, and `Become` one operation in it. There is one lemma per step of a job. `Finishing`
lists the steps that end a job well, and for each there is a lemma that what `DoesAsSaid` asks
is there. For the data, `SameData` is what the other steps leave alone. TLC checked `LifeInv` on the
bounds of `AppLife_life` before it was proved.

### Only model-checked

- Liveness (`JobsFinish`, `BatchEnds`, `FetchEnds`, `RevocationsEnd`,
  `ToolsFollowTheHousehold`, `SetupHeals`, `BothEnd`, `AppsComeBack`,
  `ScheduleFollows`, and the parts `ToolsFollow`, `FileFollows`): fairness and
  `ENABLED` are beyond the prover.

## Where the code and its documentation disagree

**A change to local only that reports success while chat still goes outside**
(`DuplexSwitch_private`, `PrivacyIsServed`). `local_models.py:12` says that with
local only, LiteLLM's settings hold no chat route to the provider gateway. When
the worker dies between writing those settings and recreating the proxy
(`provider_ops.py:147`), the job runs again, finds its files unchanged, starts
the proxy without recreating it, probes the local model, which the old settings
route too, and reports success. The running proxy still has the old routes.

It takes no death: a change from local only to an outside source whose probe
fails and whose rollback fails after writing the files, and the advised "Choose
your AI settings again to retry" (`local_models.py:806`) with local only, end
the same way, because the files did not change (`provider_ops.py:147`). So
`NeverClaimsMorePrivacy` and `SuccessIsServed` speak of executions that found
the gateway and the proxy on their files (`fresh`), and the first of those for
which the record of chat was true when they began (`honest`). An execution after
a cut, or after a rollback or a start that failed, may find neither.

### Statements TLC refutes, kept without a run

Each is a definition of its module with a comment that quotes the line. To see
the counterexample, name it as the invariant or property of a copy of the
module's configuration, with the changes given.

| Definition | What the code does | Bounds |
| --- | --- | --- |
| `JobQueue!CancelledIsQuiet` | `cancel` reads in one transaction and writes in another (`jobs.py:545`); a worker that claims in between runs a command under a job reported cancelled (`jobs.py:525`) | two services |
| `JobQueue!NoClaimOverCommand` | a worker killed between starting a command and recording it leaves one the next worker does not wait for (`process.py:319`) | as the run |
| `JobQueue!ReclaimMeansDeath` | a job is claimed twice with every worker alive (`jobs.py:313`) | as the run |
| `InstallBatch!OneQueuePerApp` | `commit_state` sets a cancelled batch running again when the claimed app's job is created (`install_batches.py:148`), so the app is in two queues | 2 batches, 1 cancel |
| `InstallBatch!ClaimsGetJobs` | a claimed app whose job was refused, or whose claimer died before creating it, keeps its batch waiting | as the run |
| `InstallBatch!ResetEnds` | a second reset reuses the first one's key and replays its finished cleanup | `MaxResets = 2` |
| `InstallBatch!ResetIsQuiet`, `CleanupSparesInstalled` | a batch is reset under a running installation; an installed app is cleaned up | as the run; 2 batches |
| `AppChange!NeverSideBySide` | the note is cleared before the originals are wiped (`restore.py:280`); what a wipe leaves is recovered beside the restored folders (`restore.py:87`) | `MaxJobs = 3` |
| `AppChange!UndoIsPossible` | a backup is taken after the new release's files are rendered (`update.py:120`) and then refused for its layout (`docs/app-updates.md:15`) | `MaxJobs = 3` |
| `CalendarSync!NothingDuplicated` | an event whose upload arrived but whose answer was lost goes to the calendar selected now, a second time (`local_calendar.py:373`) | 2 versions, 1 fault |
| `CoreSetup!RebuildLaunchesCore` | the old computer's succeeded core job comes back with its database, and none is created for this one (`docs/backup-recovery.md`) | as the run, `Modes = {TRUE}` |
| `Access!RevokedMeansRevoked` | a chat pass between two revocations makes a deactivated person's key anew, and nothing withdraws it (`people.chat_people`) | `Follow` with `gateway_key`, `Watch` with `gateway` |
| `Access!NoDemotionIsLost` | the API dies between the two transactions of a reactivation (`people.py:172`), against "Reactivation must not hand back an administrator role whose removal never finished"; or Authentik refuses the demotion of somebody deactivated, for whom `record` writes no row (`access.py:100`) | as the run |
| `Access!CalendarWorks` | forgetting deletes the calendar key and swallows a failure of ContextForge (`calendar_tools.py:206`), so the record stays; after a reactivation the pass skips whoever has a record, and no key is made again | as the run |
| `SelfUpdate!WentBack` | the guard starts the worker on the restored database, in which the update's job is still running; it is claimed and updates again (`update_guard.py:17`), and the guard takes the services of that update for those it put back | as the run |
| `SelfUpdate!StoppedSafely` | "Worker stopped safely" (`worker.py:144`): an `OSError` while the guard's files are written (`self_update.py:456`) leaves the new version on the disk, perhaps a part of it, with no guard | as the run |
| `AppLife!KeepsItsState` | accepting a start records the app as queued; a refusal in the job records nothing, so it stays queued with no job (`service_ops._ready_to_start`) | as the run |
| `AppLife!StopsItsTools` | connectors that were prepared again while they ran, or wait for a credential, are skipped when their app stops or goes (`mcp_ops.py:364`, `653`), against "stop them before their app stops" (`docs/architecture.md:229`) | as the run |
| `AppLife!ToolsReachChat` | a worker that dies between the state "live" and the registration (`mcp_ops.py:410`), or a failed update put back, leaves a connector that runs, looks right and is in no chat | as the run |
| `AppLife!SurvivesTheReading` | a `docker ps` that fails while the proxy's file is written drops the address of an installed app whose last job failed (`routes.py:69`, `service_state.py:293`) | as the run |
| `BackupHooks!BacksUpTheLiveFolder` | a server that restarts by itself during a restore is taken for one that sees the new folders | 1 backup, 1 job, no trouble, 1 restart |
| `BackupHooks!NothingElseChangesIt` | "nothing else may change it" (`backup_service.py:422`): a retried start or stop (`api/routes/jobs.py:73`), the start of an app that needs it and the voice switch look for no hold; a restore claimed before a hold that had nothing to stop swaps the folder under the copy | as the run |
| `DuplexSwitch!CardHoldsOneModel` | "must never hold two models" (`duplex_voice.py:11`): a failed switch whose model cannot be stopped starts the other apps beside it (`duplex_voice.py:492`); the card counts as free when `nvidia-smi` fails (`duplex_voice.py:202`), so the model starts beside what runs | as the run |
| `DuplexSwitch!DisplacedAppsReturn` | the stopped apps are forgotten before the agent's file is written (`duplex_voice.py:494`, `515`); if that fails they are neither started again nor named. A stop that failed half-way says only that the app could not be stopped (`app_control.py:48`), and it stays down | as the run |

Properties that hold are stated so that they say what remains true beside these:
`SuccessIsComplete` of batches not reset; `BatchEnds` excepts requests appended
later, pauses the owner kept and stranded claims; `NeverWorse` a call with the cache to
itself; `OneModelOnCard` a model that would not stop and what the check did not see; `AppsAsWished` the apps
lost to a failed stop or write; `ResultIsTrue` a job
claimed again; `FolderStaysPut` speaks of the folder recorded; `HeldMeansStopped` and `ComesBack`
except the jobs that look for no hold.

### Also seen while modelling

- **Batches.** An app appended after one it needs has failed is never blocked.
  A cancel and a reset with a claimed app revive the batch, which ends
  "succeeded" with items still waiting for their reset. A dependency that was
  installed when the batch was planned, or set up by it, and is uninstalled by
  somebody else, or cleaned up with another batch, before the app that needs it
  is queued is not looked for again.
- **Images.** With overlapping calls, the first to finish a shared layer renames
  or removes the part file under the second, which ends with an `OSError`;
  `download_images` falls back only from `FetchError`, although the docstring
  promises the fallback for anything unexpected. So does a full disk. The
  fallback leaves layers in the cache.
- **Changes of an app.** A crash between clearing the note and starting the app
  leaves it stopped, with nothing that shows it (`restore.py:315`). Keeping an
  update is offered after an undo that stopped half-way (`update.py:221`); a
  recovery without a note starts an app its owner had stopped
  (`maintenance.py:58`).
- **Apps.** After its project was removed, a deletion looks for data folders by
  the checkout; if it then fails and the setup is retried, a newer release
  starts on the old data (`DataKeepsItsRelease` excepts it by `dropped`). A
  failing first start leaves first-start credentials running. A restart from
  "failed" records "running" without an address.
- **Connectors.** Failed removals of a gateway entry are only logged; a crash between
  "live" and the registration leaves a connector unregistered; a failed update
  of a disabled connector shows it live; a deleted app's credentials stay in the
  secret store and are written back with its files.
- **Backups.** A copy longer than 45 minutes with one unanswered poll has its app
  started under it. A failing `docker ps` counts as no survivors. An administrator
  who cancels the start after a backup leaves the app stopped without a hold
  (`backup_service.py:414`). A put-back that cannot stop the app leaves its note.
- **Calendars.** A disconnection brings back an event that was deleted here but
  whose deletion was never sent (`local_calendar.py:326`).
- **People.** A runner with an old list deactivates somebody who was reactivated
  meanwhile. A session opened before a demotion that was finished, then
  replaced by a deactivation and taken back, still claims the group. A demotion
  whose `add_to_group` fails leaves the person without any group. A copy of a
  connector that fails to start loses the IDs needed to delete it. Keys follow
  the e-mail address a person had when they were made. A demoted member whose
  revocation is still pending keeps calendar tools which the calendar refuses:
  it looks for any hold, with a message that speaks of lost access
  (`api/routes/chat_calendar.py:36`). Somebody whose assistants cannot be read
  is written to the voice file without tools (`voice_tools.py:131`).
- **Setup.** Docker's settings are looked for on disk only: a run that dies before
  Docker's restart leaves them unread. A key lost before the graphics step makes
  that step wait. After a git pull the installer says ready with an older
  Authentik, of which it asks only that it is healthy (`install.py:1311`), or an
  older vault, compared with the project rendered last and not with the checkout
  (`install.py:1074`); `ReadyMeansCurrent` leaves both out. The verdict of a verification is not recorded over an earlier
  one that succeeded.
- **Self-update.** A worker that dies after it launched the guard lets the guard
  verify with the old dashboard up. A crash between the checkout and the end of
  the job makes its second execution find nothing to do, with old packages. A
  copy that fails while the guard puts the database back (`update_guard.py:216`)
  ends the guard with no result and leaves the services stopped over half a
  database; its copy is whole.
- **Assistant.** A file that cannot be written is no `ValueError` (`provider_ops.py:143`): a
  connection being checked stays "verifying". A disabling whose gateway would not start, tried again, reports
  success with the key still served. A removal that is cut short and cancelled
  leaves its key routable until the next job of that connection. A cancelled chat job between its record and
  its rendering leaves a record of local only over outside routes. A rollback of
  the voice setting that fails leaves the record at the earlier setting. Saving a
  key while everything is local only leaves the provider "verifying".

## What is not modelled

`PROJECT.json` gives the reason for each component. In short:

- **Resource locks.** One worker runs jobs, only a job takes several keys, and
  every wait ends in `Busy` after a time, so a cycle cannot last. The models
  keep the effect: what a holder does is one step.
- **Database and stores.** A migration, with its version, is one SQLite
  transaction, and an encrypted store is replaced as a file under a lock.
- **Nothing to interleave**: the app catalog and manifests, the HTTP layer's
  parsing and views, disk cleanup (what it missed it removes next time), vault
  sync (idempotent writes, retried whole).
- **Read-only**: the status observer and reconciler.
- **The dashboard** is a client without state of its own.
- **Outside**: Docker, Authentik, Nextcloud, LiteLLM, ContextForge, Kopia,
  Tailscale, systemd and SQLite appear by what the code sees of them. A
  transaction is atomic, a lock is released when its holder dies, a request may
  be lost with or without its effect.

Within the modelled parts: redaction, audit wording and logging; disk-space
estimates; the measurement of downloads; recurring events, the limit of 5000
events and the calendars' caches; pruning, pinning and history of deployment
copies; an update guard that cannot write its result file; `InstallBatchStore.resume`, which asks for a state no batch reaches; invitations and new
accounts; Ubuntu's derivatives in the installer; and what each module's section
says it leaves out.

## Running it

```
tlc -config JobQueue_jobs.cfg MCJobQueue.tla
tlc -config InstallBatch_batch.cfg MCInstallBatch.tla
tlc -config ImageFetch_fetch.cfg MCImageFetch.tla
tlc -config AppChange_changes.cfg AppChange.tla
tlc -config AppLife_life.cfg MCAppLife.tla
tlc -config BackupHooks_backups.cfg BackupHooks.tla
tlc -config CalendarSync_safe.cfg CalendarSync.tla
tlc -config Access_household.cfg Access.tla
tlc -config CoreSetup_setup.cfg CoreSetup.tla
tlc -config SelfUpdate_update.cfg SelfUpdate.tla
tlc -config DuplexSwitch_assistant.cfg DuplexSwitch.tla
tlc -config DuplexSwitch_private.cfg DuplexSwitch.tla
tlapm JobQueueProofs.tla
tlapm CalendarSyncProofs.tla
tlapm AppChangeProofs.tla
tlapm BackupHooksProofs.tla
tlapm CoreSetupProofs.tla      # about 6 minutes
tlapm LifecycleProofs.tla      # about 9 minutes
tlapm DuplexSwitchProofs.tla   # about 3 minutes
tlapm InstallBatchProofs.tla   # about 6 minutes
```

On two cores no run takes more than about two minutes; the proof modules together about half an hour.
