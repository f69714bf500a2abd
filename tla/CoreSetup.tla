----------------------------- MODULE CoreSetup -----------------------------
(* The durable side of setup: the provisioning record the dashboard shows, the
   core job the installer queues once Authentik runs (install.launch_core_setup)
   and the worker executes (core_setup._run, _run_verify), the owner's AI
   provider, and the apps a rebuild starts again (rebuild.resume). *)
EXTENDS Rebuild

CONSTANTS
  Engines,   \* what Docker may be when setup first runs
  Modes,     \* the ways ./install.sh is called: with --restore (TRUE) or without
  Apps,      \* the optional apps that ran on the old computer
  CoreApps,  \* how many core apps there are
  MaxJobs,   \* bound: core-suite jobs
  Mixed      \* bound: whether a computer that is rebuilt may also pull a new version

ASSUME CoreAssumption == CoreApps \in Nat /\ MaxJobs \in Nat /\ Mixed \in BOOLEAN

VARIABLES
  phase,     \* the provisioning record
  jobs,      \* the core-suite jobs, oldest first
  job,       \* the job the worker executes, 0: none
  installed, \* core apps the current job has installed
  chat,      \* an AI provider is configured
  starts,    \* rebuild.resume: how many start jobs each app was given
  noted,     \* rebuild.json: the apps it says were started
  busy       \* an app has another job waiting

coreVars == <<phase, jobs, job, installed, chat, starts, noted, busy>>
vars == <<hostVars, rebuildVars, coreVars>>

BootPhases == {"foundation", "vaultwarden", "tailscale", "identity", "dashboard_protection"}
Phases == BootPhases \cup {"core", "configuration", "verification"}
PhaseStates == {"pending", "running", "waiting", "verified", "failed"}

(* ProvisioningStore.update: what may follow what; anything else is a ValueError. *)
Follows(from) ==
  CASE from = "pending" -> PhaseStates \ {"pending"}
    [] from \in {"running", "waiting"} -> PhaseStates
    [] OTHER -> {"running", "pending"}   \* failed, verified
Allowed(p, state) == phase[p] = state \/ state \in Follows(phase[p])

FreshPhases == [p \in Phases |-> "pending"]
(* A core-suite job; after: created on this computer, not brought by a rebuild. *)
NewJob(action, actor) ==
  [action |-> action, state |-> "queued", actor |-> actor, identity |-> FALSE, after |-> TRUE]
OldJob == [NewJob("install", "bootstrap") EXCEPT !.state = "succeeded", !.after = FALSE]

CoreInit ==
  /\ phase = FreshPhases /\ jobs = <<>> /\ job = 0 /\ installed = 0 /\ chat = FALSE
  /\ starts = [a \in Apps |-> 0] /\ noted = {} /\ busy = {}

-----------------------------------------------------------------------------
(* The installer's part. *)

Owner == host.authentik /\ host.admin # "none"   \* owner_identity(): the one administrator
Active == {n \in 1 .. Len(jobs) : jobs[n].state \in {"queued", "running", "succeeded"}}
Pending == {n \in 1 .. Len(jobs) : jobs[n].state \in {"queued", "running"}}
LastActive == CHOOSE n \in Active : \A m \in Active : m <= n

Launch_Any(known) == Append(jobs, [NewJob("install", "bootstrap") EXCEPT !.identity = known])  \* mutant: asks no job store
(* launch_core_setup, knowing of the owner or not; nobody reads what it saves for
   a job that has ended. *)
Launched(known) ==
  IF Active # {}
  THEN [jobs EXCEPT ![LastActive].identity = @ \/ (known /\ LastActive \in Pending)]
  ELSE Append(jobs, [NewJob("install", "bootstrap") EXCEPT !.identity = known])
Room(launched) == IF Len(launched) <= MaxJobs THEN launched ELSE jobs   \* the bound
Launch == jobs' = Room(Launched(Owner))

(* The step authentik done: the launch is a head start, its failure is logged. *)
HeadStart ==
  IF Step = "authentik" /\ (run'.step # run.step \/ run'.at = "finish")
  THEN (Launch \/ jobs' = jobs) /\ UNCHANGED <<phase, job, installed, chat, starts, noted, busy>>
  ELSE UNCHANGED coreVars

(* The end of run_job. Authentik may not answer just now (no owner); when the
   launch raises, core is marked failed, which a verified core does not allow. *)
BootDone(core) ==
  phase' = [p \in Phases |-> IF p \in BootPhases THEN "verified" ELSE IF p = "core" THEN core ELSE phase[p]]
Finish ==
  /\ Running /\ run.at = "finish"
  /\ UNCHANGED <<host, checkout, rebuildVars, job, installed, chat, starts, noted, busy>>
  /\ \/ Launch /\ BootDone(phase["core"]) /\ Ends("ready") /\ UNCHANGED trouble
     \/ /\ jobs' = Room(Launched(FALSE)) /\ BootDone(phase["core"]) /\ Ends("ready") /\ Troubled
     \/ /\ Troubled /\ jobs' = jobs
        /\ IF Allowed("core", "failed") THEN BootDone("failed") /\ Ends("ready")
           ELSE Ends("idle") /\ phase' = phase

(* prepare_database: the old jobs keep their history, setup starts afresh. *)
DatabaseBrought ==
  IF todo = <<>> \/ Head(todo) # <<"fill", "control">> THEN UNCHANGED <<phase, jobs>>
  ELSE /\ jobs' \in {<<>>, <<OldJob>>}
       /\ phase' = FreshPhases

SetupStep ==
  \/ /\ RunCheck(RestoreState) \/ Verify(RestoreState)
     /\ HeadStart /\ UNCHANGED rebuildVars
  \/ /\ RunCommand \/ Approve \/ CommandRefused \/ Prefetch
     /\ UNCHANGED <<rebuildVars, coreVars>>
  \/ /\ RebuildStep
     /\ DatabaseBrought
     /\ UNCHANGED <<job, installed, chat, starts, noted, busy>>
  \/ Finish

-----------------------------------------------------------------------------
(* The worker's part. It runs while its service does. *)

Working == host.worker # 0 /\ job # 0
Mine == jobs[job]
Ended(state) == [Mine EXCEPT !.state = state, !.identity = FALSE, !.actor = "bootstrap"]
EndJob(state) == jobs' = [jobs EXCEPT ![job] = Ended(state)] /\ job' = 0 /\ installed' = 0
Quiet == UNCHANGED <<hostVars, rebuildVars, chat, starts, noted, busy>>

(* claim: the oldest job that waits. A core job marks its phase running. *)
Claim ==
  /\ host.worker # 0 /\ job = 0 /\ Pending # {}
  /\ job' = CHOOSE n \in Pending : \A m \in Pending : n <= m
  /\ jobs' = [jobs EXCEPT ![job'].state = "running"]
  /\ phase' = [phase EXCEPT !["core"] = IF jobs[job'].action = "install" THEN "running" ELSE @]
  /\ UNCHANGED installed /\ Quiet

(* _sign_in_ready: the dashboard is protected, and setup's own job knows the
   owner unless there is none. *)
SignInReady ==
  /\ phase["dashboard_protection"] = "verified"
  /\ Mine.actor = "bootstrap" => Mine.identity \/ ~Owner
InstallApp ==
  /\ Working /\ Mine.action = "install" /\ installed < CoreApps
  /\ SignInReady
  /\ installed' = installed + 1
  /\ UNCHANGED <<phase, jobs, job>> /\ Quiet

(* The plan is not ready, an app's installation fails, an exception: core is failed. *)
CoreFails ==
  /\ Working /\ Mine.action = "install" /\ Troubled
  /\ EndJob("failed") /\ phase' = [phase EXCEPT !["core"] = "failed"]
  /\ UNCHANGED <<host, checkout, run, rebuildVars, chat, starts, noted, busy>>

(* With no provider setup ends with what it can do by itself. Configuration may
   be verified already: then the note raises, and so does marking core failed. *)
CoreWithoutChat ==
  /\ Working /\ Mine.action = "install" /\ installed = CoreApps /\ ~chat
  /\ IF Allowed("configuration", "waiting")
     THEN EndJob("succeeded")
          /\ phase' = [phase EXCEPT !["core"] = "verified", !["configuration"] = "waiting"]
     ELSE EndJob("failed") /\ phase' = [phase EXCEPT !["core"] = "verified"]
  /\ Quiet

(* _verify_platform: every service answers, a chat and an embedding come back. *)
CoreVerified ==
  /\ Working /\ Mine.action = "install" /\ installed = CoreApps /\ chat
  /\ \/ EndJob("succeeded") /\ phase' = [phase EXCEPT !["core"] = "verified", !["verification"] = "verified"]
     \/ EndJob("failed") /\ phase' = [phase EXCEPT !["core"] = "failed"]
  /\ Quiet

(* _run_verify: an app someone turned off is noted; a check that fails cannot be
   recorded over a verified phase, the job fails all the same. *)
VerifyRuns ==
  /\ Working /\ Mine.action = "verify"
  /\ \/ EndJob("succeeded") /\ phase' = [phase EXCEPT !["verification"] = "waiting"]
     \/ /\ chat /\ EndJob("succeeded")
        /\ phase' = [phase EXCEPT !["core"] = "verified", !["verification"] = "verified"]
     \/ /\ EndJob("failed")
        /\ phase' = [phase EXCEPT !["verification"] = IF Allowed("verification", "failed") THEN "failed" ELSE @]
  /\ Quiet

(* The worker dies and its service starts it again: the job is claimed anew. *)
WorkerDies ==
  /\ Working /\ Troubled
  /\ jobs' = [jobs EXCEPT ![job].state = "queued"]
  /\ job' = 0 /\ installed' = 0
  /\ UNCHANGED <<host, checkout, run, rebuildVars, phase, chat, starts, noted, busy>>

(* rebuild.resume: start jobs for the apps that ran, each with a key of its own,
   once a core job of this computer has succeeded; then the marker says so. *)
CoreDone == \E n \in 1 .. Len(jobs) : jobs[n].state = "succeeded" /\ jobs[n].after
Keyed(a) == starts[a] > 0
Due == {a \in Apps : a \notin noted /\ a \notin busy}
Started == [a \in Apps |-> IF a \in Due /\ ~Keyed(a) THEN 1 + starts[a] ELSE starts[a]]
Resume ==
  /\ host.worker # 0 /\ job = 0 /\ marker = "restored" /\ noted # Apps /\ CoreDone /\ Due # {}
  /\ starts' = Started
  /\ \/ noted' = noted \cup Due /\ UNCHANGED trouble
     \/ noted' = noted /\ Troubled   \* dead before the marker was written
  /\ UNCHANGED <<host, checkout, run, rebuildVars, phase, jobs, job, installed, chat, busy>>

Unbusy ==
  /\ host.worker # 0 /\ job = 0 /\ busy # {}
  /\ \E a \in busy : busy' = busy \ {a}
  /\ UNCHANGED <<hostVars, rebuildVars, phase, jobs, job, installed, chat, starts, noted>>

WorkerStep ==
  \/ Claim \/ InstallApp \/ CoreWithoutChat \/ CoreVerified \/ VerifyRuns \/ Resume \/ Unbusy

-----------------------------------------------------------------------------
(* The owner at the dashboard, which answers who signed in. *)

AtDashboard == host.ctl # 0 /\ AsksToSignIn /\ "dashboard" \in host.served /\ ~Running
AskFor(action) ==   \* /jobs/core-install, /jobs/core-verify: not while one is active
  /\ AtDashboard /\ Pending = {} /\ Len(jobs) < MaxJobs
  /\ jobs' = Append(jobs, NewJob(action, "owner"))
  /\ UNCHANGED <<hostVars, rebuildVars, phase, job, installed, chat, starts, noted, busy>>
(* A provider passes its check: configuration is verified and a check is queued. *)
AddProvider ==
  /\ AtDashboard /\ ~chat /\ CoreDone
  /\ chat' = TRUE /\ phase' = [phase EXCEPT !["configuration"] = "verified"]
  /\ jobs' = IF Pending = {} /\ Len(jobs) < MaxJobs THEN Append(jobs, NewJob("verify", "owner")) ELSE jobs
  /\ UNCHANGED <<hostVars, rebuildVars, job, installed, starts, noted, busy>>
RemoveProvider ==
  /\ AtDashboard /\ chat /\ Troubled
  /\ chat' = FALSE
  /\ UNCHANGED <<host, checkout, run, rebuildVars, phase, jobs, job, installed, starts, noted, busy>>
AppBusy ==
  /\ AtDashboard /\ marker = "restored" /\ CoreDone /\ busy = {} /\ Troubled
  /\ \E a \in Apps : a \notin noted /\ busy' = {a}
  /\ UNCHANGED <<host, checkout, run, rebuildVars, phase, jobs, job, installed, chat, starts, noted>>

Troubles ==
  \/ (CommandFails \/ Disturb) /\ UNCHANGED <<rebuildVars, coreVars>>
  \/ Die /\ todo' = <<>> /\ UNCHANGED <<files, owned, marker, inPlace, coreVars>>
  \/ /\ FillFails
     /\ DatabaseBrought \/ UNCHANGED <<phase, jobs>>
     /\ UNCHANGED <<job, installed, chat, starts, noted, busy>>
  \/ (ClearDies \/ Meddle) /\ UNCHANGED coreVars
  \/ CoreFails \/ WorkerDies

People ==
  \/ \E restoring \in Modes :
       /\ Mixed \/ ~restoring \/ checkout = FirstVersion
       /\ StartRun(restoring) /\ UNCHANGED <<rebuildVars, coreVars>>
  \/ (Mixed \/ marker = "none") /\ Pull /\ UNCHANGED <<rebuildVars, coreVars>>
  \/ (Login \/ FreePort) /\ UNCHANGED <<rebuildVars, coreVars>>
  \/ AskFor("install") \/ AskFor("verify") \/ AddProvider \/ RemoveProvider \/ AppBusy

Init ==
  /\ \E engine \in Engines : host = FreshHost(engine, TRUE)
  /\ checkout = FirstVersion /\ run = Idle /\ trouble = 0
  /\ RebuildInit /\ CoreInit

Next == SetupStep \/ WorkerStep \/ Troubles \/ People

Spec == Init /\ [][Next]_vars

-----------------------------------------------------------------------------
(* Properties *)

TypeOK ==
  /\ checkout \in Versions /\ trouble \in 0 .. MaxTrouble
  /\ host.target \in Configs /\ host.caddy \in Configs
  /\ host.keys \cup host.sources \subseteq {"docker", "tailscale", "nvidia"}
  /\ run.step \in 1 .. Len(Steps) /\ run.at \in {"check", "fix", "finish"}
  /\ files \in [TargetSet -> Content] /\ owned \in [TargetSet -> {"no", "open", "sealed"}]
  /\ todo # <<>> => Restoring
  /\ phase \in [Phases -> PhaseStates] /\ job \in 0 .. Len(jobs)

(* When the installer says Mu3Lab is set up, the dashboard's build, the API, the
   worker, the gateway and the images fetched are of the version checked out, and
   every address is published: each stamp it trusts instead of looking was written
   for what runs (bootstrap/stamps.py). Not so the vault and Authentik, of which it
   asks only that they are healthy, and of the vault that it runs the image of the
   project rendered last (_vaultwarden_check, _authentik_check). *)
ReadyMeansCurrent ==
  [][run'.state = "ready" /\ run.state = "running" =>
       /\ host.built = checkout /\ host.ctl = checkout /\ host.worker = checkout
       /\ host.caddy = Auth(checkout) /\ host.images = checkout /\ host.served = Routes]_vars

(* The gateway serves the dashboard only with the sign-in of a version Authentik
   was configured for, whatever run died between rendering the configuration,
   starting Caddy and configuring Authentik (_caddy_fix, _protection_fix). *)
DashboardIsGated == host.caddy[1] = "auth" => host.synced >= host.caddy[2]

(* Secrets, sign-in, passwords and projects are all of one computer: no run makes
   new secrets for restored data, or puts restored data under new secrets
   (rebuild.restore, and the refusal of a half-done rebuild by an ordinary run). *)
OneComputersData ==
  LET made == {host.tokens, host.admin, host.account} IN
  /\ ~({"old", "new"} \subseteq made)
  /\ marker = "restored" => "new" \notin made

(* A rebuild never alters or removes a file it did not write itself, nor one that
   somebody changed after it did (_own, _clear_partial). *)
RebuildKeepsFiles ==
  [][\A t \in TargetSet : files[t] \in {"theirs", "changed"} => files'[t] = files[t]]_vars

(* Setup has at most one core job under way, whoever asked for it and however
   often the installer ran (launch_core_setup, the job's claim). *)
OneCoreJob == Cardinality(Pending) <= 1

(* A core app is installed only once Authentik guards the dashboard, and setup's
   own job knows whose account to create when there is one (_sign_in_ready). *)
CoreAppsAwaitTheGate ==
  [][installed' > installed =>
       host.gate # 0 /\ host.synced # 0 /\ (Mine.actor = "bootstrap" /\ Owner => Mine.identity)]_vars

(* After a rebuild each app that ran is started by one job, after core setup of
   this computer, though the worker may die before the marker says so (resume). *)
AppsStartOnce ==
  /\ \A a \in Apps : starts[a] <= 1
  /\ \A a \in Apps : starts[a] = 1 => \E n \in 1 .. Len(jobs) : jobs[n].after /\ jobs[n].state = "succeeded"
  /\ noted \subseteq {a \in Apps : starts[a] = 1}

(* No moment of the setup leaves the dashboard open or puts an app behind a
   sign-in that is not there yet, whatever failed or died before. *)
GateHolds == [](TypeOK /\ DashboardIsGated) /\ CoreAppsAwaitTheGate

(* A rebuild is of one computer and leaves what other people put there. *)
RebuildIsClean == []OneComputersData /\ RebuildKeepsFiles

(* What is to be started once is started once, by installer, worker and owner. *)
StartsOnce == OneCoreJob /\ AppsStartOnce

(* What docs/backup-recovery.md says of a rebuild: the normal setup continues
   with core setup on the new computer. TLC refutes it: the old computer's
   succeeded core job comes back with its database, and none is created. *)
RebuildLaunchesCore ==
  run.state = "ready" /\ marker = "restored" => \E n \in 1 .. Len(jobs) : jobs[n].after

-----------------------------------------------------------------------------
(* Fairness: the installer's engine goes on while it runs, its owner approves the
   computer, logs in again, frees a port and runs ./install.sh until it is done. *)
Fairness ==
  /\ WF_vars(SetupStep)
  /\ SF_vars(StartRun(FALSE) /\ run.state # "ready" /\ UNCHANGED <<rebuildVars, coreVars>>)
  /\ SF_vars((Login \/ FreePort) /\ UNCHANGED <<rebuildVars, coreVars>>)
FairSpec == Spec /\ Fairness

(* Running ./install.sh again always ends in a computer that is set up, whatever
   command failed and wherever a run died: no half-done step blocks its own
   repair. Only an interrupted rebuild waits for its owner. *)
SetupHeals == <>(run.state = "ready" \/ marker = "started")
=============================================================================
