-------------------------- MODULE BackupHooksProofs --------------------------
(***************************************************************************)
(* Proofs about BackupHooks, for any bounds and any set of schedules: what *)
(* Kopia copies is at rest, and stays the folder that was checked.         *)
(***************************************************************************)
EXTENDS BackupHooks, TLAPS
-----------------------------------------------------------------------------
(* The inductive invariant. *)

\* A restore that was not tried yet will make one more folder; one that was
\* tried is refused when its worker died, so no job makes two.
Untried ==
    IF job.kind = "restore" /\ job.stage \in {"queued", "running"} /\ ~job.reclaimed
    THEN 1 ELSE 0

CountInv ==
    /\ folder.next + Untried <= used.asks + 1
    /\ job.kind = "restore" /\ job.stage = "running" => ~job.reclaimed

\* The call being served is the one the server waits for, or one it gave up.
CallInv ==
    /\ call.action = "none" <=> call.at = "none"
    /\ call.action = "before" => kopia \in {"before", "idle"}
    /\ call.action = "after" => kopia \in {"after", "idle"}
    /\ call.at \in {"stopping", "restarting"} => call.action = "before"
    /\ call.at = "starting" => call.action = "after"

\* While an app that ran is held, no restore or recovery is at work, and unless
\* a job came that looks for no hold, only the jobs of the hold touch the app.
HeldInv ==
    hold.was_running =>
        /\ folder.recorded = folder.live
        /\ job.stage \in {"running", "swapped"} => job.kind \notin {"restore", "recover"}
        /\ ~meddled => record # "stopped" /\ job.kind \in HookJobs \cup {"none"}

\* While a call waits for the stop, the stop is on its way or is over; no
\* start was asked for.
StoppingInv ==
    call.at = "stopping" /\ hold.was_running /\ ~meddled =>
        \/ job.kind = "backup_stop" /\ asked.backup_stop = "active"
        \/ job = NoJob /\ (asked.backup_stop = "succeeded" => ~app)

CopyInv == kopia = "upload" /\ hold.was_running /\ ~meddled => job = NoJob /\ ~app

IInv == TypeOK /\ CountInv /\ CallInv /\ HeldInv /\ StoppingInv /\ CopyInv
-----------------------------------------------------------------------------
(* The job store's operators. *)

JobType == [kind: Kinds \cup {"none"},
            stage: {"none", "queued", "running", "swapped"},
            since: 0..MaxBackups, reclaimed: BOOLEAN, was: BOOLEAN]
HoldType == [since: 0..MaxBackups, was_running: BOOLEAN, age: {"none", "new", "stuck", "old"}]
FolderType == [live: 0..MaxAsks, mounted: 0..MaxAsks, recorded: 0..MaxAsks,
               known: BOOLEAN, next: 1..MaxAsks + 1]
NoteType == [open: BOOLEAN, was: BOOLEAN, aside: 0..MaxAsks]
CallType == [action: {"none", "before", "after"},
             at: {"none", "check", "stopping", "restarting", "starting"}]
PolicyType == [global: Schedules, own: {"ours", "other"},
               loaded: Schedules \cup {"other"}]
AppliedType == [global: Schedules \cup {"none"}, own: BOOLEAN, repaired: BOOLEAN]
UsedType == [backups: 0..MaxBackups, asks: 0..MaxAsks, changes: 0..MaxChanges,
             trouble: 0..MaxTrouble, restarts: 0..MaxRestarts]
AskedType == [since: 0..MaxBackups, backup_stop: Outcomes, backup_start: Outcomes]

\* The bounds are naturals.
LEMMA BoundsAre ==
  /\ MaxBackups \in Nat /\ MaxAsks \in Nat /\ MaxChanges \in Nat
  /\ MaxTrouble \in Nat /\ MaxRestarts \in Nat /\ Default \in Schedules
BY BackupAssumption DEF BackupAssumption

\* Nothing, as a job, as a hold and as a memory of a hold's jobs.
LEMMA NoneAre ==
  /\ NoJob \in JobType /\ NoJob.kind = "none" /\ NoJob.stage = "none"
  /\ NoHold \in HoldType
  /\ ~NoHold.was_running
  /\ \A n \in 0..MaxBackups :
       /\ Unasked(n) \in AskedType
       /\ [Unasked(n) EXCEPT !.backup_stop = "active"] \in AskedType
BY BoundsAre DEF NoJob, JobType, Kinds, AskedType, NoHold, HoldType, Unasked, Outcomes

\* A job that is queued.
LEMMA QueuedIs ==
  ASSUME NEW kind \in Kinds, NEW since \in 0..MaxBackups
  PROVE  /\ Queued(kind, since) \in JobType
         /\ Queued(kind, since).kind = kind /\ Queued(kind, since).stage = "queued"
         /\ ~Queued(kind, since).reclaimed /\ Queued(kind, since) # NoJob
BY NoneAre DEF Queued, JobType, NoJob, Kinds

\* A job of the hold that is asked for is queued, or was asked for before.
LEMMA QueueIs ==
  ASSUME TypeOK, NEW kind \in HookJobs, Queue(kind)
  PROVE  /\ job' \in JobType /\ asked' \in AskedType
         /\ job' = job \/ (job'.kind = kind /\ job'.stage = "queued")
         /\ retryable' = retryable
<1>1. hold.since \in 0..MaxBackups /\ job \in JobType /\ asked \in AskedType
  BY DEF TypeOK, JobType, AskedType
<1>2. CASE asked[kind] # "none"
  BY <1>1, <1>2 DEF Queue, jobVars
<1>3. CASE asked[kind] = "none"
  <2>1. job' = Queued(kind, hold.since) /\ asked' = [asked EXCEPT ![kind] = "active"]
        /\ retryable' = retryable
    BY <1>3 DEF Queue
  <2>2. asked' \in AskedType
    BY <1>1, <2>1 DEF AskedType, HookJobs, Outcomes
  <2> QED BY <1>1, <2>1, <2>2, QueuedIs DEF Kinds
<1> QED BY <1>2, <1>3

\* A job that ends leaves no job, and what it tells is an outcome.
LEMMA FinishIs ==
  ASSUME TypeOK, NEW outcome \in {"succeeded", "failed", "cancelled"}, FinishJob(outcome)
  PROVE  /\ job' = NoJob /\ asked' \in AskedType
         /\ job.kind # "none" => retryable' \subseteq Kinds
         /\ outcome = "cancelled" => retryable' = retryable
         /\ asked' = asked
            \/ (job.kind \in HookJobs /\ asked' = [asked EXCEPT ![job.kind] = outcome])
<1>1. job \in JobType /\ asked \in AskedType
  BY DEF TypeOK, JobType, AskedType
<1>2. job.kind \in HookJobs => [asked EXCEPT ![job.kind] = outcome] \in AskedType
  BY <1>1 DEF AskedType, HookJobs, Outcomes
<1>3. retryable' = retryable \cup (IF outcome = "failed" THEN {job.kind} ELSE {})
  BY DEF FinishJob
<1>4. job.kind # "none" => retryable' \subseteq Kinds
  <2>1. retryable \subseteq Kinds /\ (job.kind # "none" => job.kind \in Kinds)
    BY <1>1 DEF TypeOK, JobType
  <2> QED BY <1>3, <2>1
<1>5. outcome = "cancelled" => retryable' = retryable
  BY <1>3
<1> QED BY <1>1, <1>2, <1>4, <1>5 DEF FinishJob

\* A claim or a death of the worker changes where the job is, not what it is.
LEMMA MovedIs ==
  ASSUME TypeOK
  PROVE  /\ [job EXCEPT !.stage = "running", !.was = record # "stopped"] \in JobType
         /\ [job EXCEPT !.stage = "swapped"] \in JobType
         /\ [job EXCEPT !.stage = "queued", !.reclaimed = TRUE] \in JobType
<1>1. job \in JobType
  BY DEF TypeOK, JobType
<1>2. ASSUME NEW was \in BOOLEAN
      PROVE  [job EXCEPT !.stage = "running", !.was = was] \in JobType
  BY <1>1 DEF JobType
<1>3. (record # "stopped") \in BOOLEAN
  OBVIOUS
<1>4. [job EXCEPT !.stage = "running", !.was = record # "stopped"] \in JobType
  BY <1>2, <1>3, Zenon
<1>5. [job EXCEPT !.stage = "swapped"] \in JobType
  BY <1>1 DEF JobType
<1>6. [job EXCEPT !.stage = "queued", !.reclaimed = TRUE] \in JobType
  BY <1>1 DEF JobType
<1> QED BY <1>4, <1>5, <1>6

\* An amount of trouble that is left can be spent.
LEMMA SpentIs ==
  ASSUME TypeOK, NEW n \in {0, 1}, Trouble(n), Spend(n)
  PROVE  used' \in UsedType /\ used'.asks = used.asks
BY BoundsAre DEF TypeOK, UsedType, Trouble, Spend

\* An answer leaves a server that waits for something else where it is.
LEMMA AnswerIs ==
  ASSUME TypeOK, NEW phase \in {"idle", "upload"}, Answer(phase)
  PROVE  call' = NoCall /\ call' \in CallType /\ kopia' \in {phase, kopia}
BY DEF TypeOK, Answer, NoCall, CallType

\* What the worker believes of Kopia's policies, and what the server loads.
LEMMA PoliciesAre ==
  ASSUME TypeOK, NEW answered \in BOOLEAN
  PROVE  /\ Believed(answered) \in AppliedType
         /\ [Believed(answered) EXCEPT !.global = chosen] \in AppliedType
         /\ \A p \in PolicyType : [p EXCEPT !.loaded = Loaded(p)] \in PolicyType
BY DEF TypeOK, Believed, AppliedType, PolicyType, Loaded

\* The policies that are set, or kept.
LEMMA SetPoliciesIs ==
  ASSUME TypeOK, NEW answered \in BOOLEAN, SetPolicies(answered) \/ KeepPolicies(answered)
  PROVE  policy' \in PolicyType /\ applied' \in AppliedType
<1>1. CASE KeepPolicies(answered)
  BY <1>1, PoliciesAre DEF TypeOK, KeepPolicies, PolicyType
<1>2. CASE SetPolicies(answered)
  <2> DEFINE believed == Believed(answered)
             set == [policy EXCEPT
                       !.global = IF believed.global # chosen THEN chosen ELSE @,
                       !.own = IF believed.own THEN @ ELSE "ours"]
  <2>1. set \in PolicyType
    BY DEF TypeOK, PolicyType
  <2>2. policy' \in {policy, [set EXCEPT !.loaded = Loaded(set)]}
    BY <1>2 DEF SetPolicies
  <2>3. policy' \in PolicyType
    <3>1. policy \in PolicyType
      BY DEF TypeOK, PolicyType
    <3> HIDE DEF set
    <3> QED BY <2>1, <2>2, <3>1, PoliciesAre
  <2>4. chosen \in Schedules /\ Differs(answered) \in BOOLEAN
    BY DEF TypeOK, Differs
  <2>5. applied' = [global |-> chosen, own |-> TRUE, repaired |-> Differs(answered)]
    BY <1>2 DEF SetPolicies
  <2>6. applied' \in AppliedType
    BY <2>4, <2>5, Zenon DEF AppliedType
  <2> QED BY <2>3, <2>6
<1> QED BY <1>1, <1>2
-----------------------------------------------------------------------------
\* The worker lets a stuck hold go and asks for the start, or leaves all as it is.
LEMMA RestartIs ==
  ASSUME TypeOK, NEW answered \in BOOLEAN, RestartStuck(answered)
  PROVE  /\ job' \in JobType /\ asked' \in AskedType /\ hold' \in HoldType
         /\ retryable' = retryable /\ meddled' = meddled
         /\ \/ UNCHANGED <<hold, job, asked>>
            \/ /\ Stuck(answered) /\ hold' = NoHold
               /\ job' = job \/ (job'.kind = "backup_start" /\ job'.stage = "queued")
<1>1. job \in JobType /\ asked \in AskedType /\ hold \in HoldType /\ "backup_start" \in HookJobs
  BY DEF TypeOK, JobType, AskedType, HoldType, HookJobs
<1>2. \/ UNCHANGED <<holdVars, jobVars, asked>>
      \/ /\ Stuck(answered) /\ LetGo
         /\ Queue("backup_start") \/ UNCHANGED <<jobVars, asked>>
  BY DEF RestartStuck
<1>3. CASE Stuck(answered) /\ LetGo /\ Queue("backup_start")
  BY <1>1, <1>3, QueueIs, NoneAre DEF LetGo
<1> QED BY <1>1, <1>2, <1>3, NoneAre DEF LetGo, holdVars, jobVars

\* A restore makes a folder, a new server mounts the live one.
LEMMA FolderIs ==
  ASSUME folder \in FolderType
  PROVE  /\ folder.next <= MaxAsks =>
              [folder EXCEPT !.live = folder.next, !.next = @ + 1] \in FolderType
         /\ [folder EXCEPT !.mounted = folder.live, !.recorded = folder.live] \in FolderType
         /\ [folder EXCEPT !.recorded = folder.live, !.known = TRUE] \in FolderType
<1>1. ASSUME folder.next <= MaxAsks
      PROVE  [folder EXCEPT !.live = folder.next, !.next = @ + 1] \in FolderType
  <2>1. folder.next \in 0..MaxAsks /\ folder.next + 1 \in 1..MaxAsks + 1
    BY <1>1, BoundsAre DEF FolderType
  <2> QED BY <2>1 DEF FolderType
<1>2. [folder EXCEPT !.mounted = folder.live, !.recorded = folder.live] \in FolderType
  BY DEF FolderType
<1>3. [folder EXCEPT !.recorded = folder.live, !.known = TRUE] \in FolderType
  BY DEF FolderType
<1> QED BY <1>1, <1>2, <1>3

\* A hold that is made, with the job that stops the app if it runs.
LEMMA HoldIs ==
  ASSUME TypeOK, BeforeHolds
  PROVE  /\ hold' \in HoldType /\ job' \in JobType /\ asked' \in AskedType
         /\ retryable' = retryable /\ meddled' \in {meddled, FALSE}
         /\ \/ record = "stopped" /\ ~hold'.was_running /\ job' = job
            \/ /\ record # "stopped" /\ meddled' = FALSE
               /\ job'.stage = "queued" /\ job'.kind = "backup_stop" /\ call'.at = "stopping"
               /\ asked'.backup_stop = "active" /\ kopia' = kopia
            \/ /\ UNCHANGED <<hold, meddled, job, asked>>
               /\ kopia' \in {"idle", kopia} /\ call' = NoCall
<1>1. /\ used.backups \in 0..MaxBackups /\ call \in CallType
      /\ record \in {"running", "stopped", "queued", "failed"}
      /\ job \in JobType /\ asked \in AskedType /\ hold \in HoldType /\ "backup_stop" \in Kinds
  BY DEF TypeOK, UsedType, JobType, AskedType, HoldType, HookJobs, Kinds, CallType
<1>2. ASSUME NEW was \in BOOLEAN
      PROVE  [since |-> used.backups, was_running |-> was, age |-> "new"] \in HoldType
  BY <1>1 DEF HoldType
<1>3. CASE record = "stopped"
  <2>1. hold' = [since |-> used.backups, was_running |-> FALSE, age |-> "new"]
        /\ asked' = Unasked(used.backups) /\ job' = job
        /\ retryable' = retryable /\ meddled' = FALSE
    BY <1>3 DEF BeforeHolds, jobVars
  <2> QED BY <1>1, <1>2, <1>3, <2>1, NoneAre
<1>4. CASE record # "stopped"
  <2>1. \/ /\ hold' = [since |-> used.backups, was_running |-> TRUE, age |-> "new"]
           /\ job' = Queued("backup_stop", used.backups)
           /\ asked' = [Unasked(used.backups) EXCEPT !.backup_stop = "active"]
           /\ call' = [call EXCEPT !.at = "stopping"]
           /\ kopia' = kopia /\ retryable' = retryable /\ meddled' = FALSE
        \/ UNCHANGED <<hold, meddled, job, retryable, asked>> /\ Answer("idle")
    BY <1>4 DEF BeforeHolds, jobVars, holdVars
  <2>2. [Unasked(used.backups) EXCEPT !.backup_stop = "active"].backup_stop = "active"
    BY DEF Unasked
  <2>3. [call EXCEPT !.at = "stopping"].at = "stopping"
    BY <1>1 DEF CallType
  <2>4. CASE UNCHANGED <<hold, meddled, job, retryable, asked>> /\ Answer("idle")
    BY <1>1, <2>4 DEF Answer
  <2>5. CASE /\ hold' = [since |-> used.backups, was_running |-> TRUE, age |-> "new"]
             /\ job' = Queued("backup_stop", used.backups)
             /\ asked' = [Unasked(used.backups) EXCEPT !.backup_stop = "active"]
             /\ call' = [call EXCEPT !.at = "stopping"]
             /\ kopia' = kopia /\ retryable' = retryable /\ meddled' = FALSE
    BY <1>1, <1>2, <1>4, <2>2, <2>3, <2>5, NoneAre, QueuedIs
  <2> QED BY <2>1, <2>4, <2>5
<1> QED BY <1>3, <1>4

\* A claim refuses the job or takes it up; it never takes up a restore whose
\* worker died.
LEMMA ClaimIs ==
  ASSUME TypeOK, Claim
  PROVE  /\ asked' \in AskedType /\ (job.kind \notin HookJobs => asked' = asked)
         /\ retryable' \subseteq Kinds
         /\ \/ job' = NoJob /\ job.kind \in {"restore", "recover"}
            \/ /\ job'.kind = job.kind /\ job'.stage = "running" /\ job'.reclaimed = job.reclaimed
               /\ job.kind = "restore" => ~job.reclaimed
               /\ job.kind \in {"restore", "recover"} => ~Held
               /\ asked' = asked
<1>1. job \in JobType /\ asked \in AskedType
  BY DEF TypeOK, JobType, AskedType
<1>2. CASE FinishJob("failed")
           /\ (job.kind \in {"restore", "recover"} \/ (job.kind = "restore" /\ note.open))
  BY <1>1, <1>2, FinishIs DEF HookJobs
<1>3. CASE /\ job' = [job EXCEPT !.stage = "running", !.was = record # "stopped"]
           /\ job.kind = "restore" => ~job.reclaimed
           /\ job.kind \in {"restore", "recover"} => ~Held
           /\ asked' = asked /\ retryable' = retryable
  BY <1>1, <1>3 DEF JobType, TypeOK
<1> QED BY <1>2, <1>3 DEF Claim

\* A job whose worker died waits again, and is known to have been tried.
LEMMA DeathIs ==
  ASSUME TypeOK, WorkerDies
  PROVE  /\ job'.kind = job.kind /\ job'.stage = "queued" /\ job'.reclaimed
         /\ job # NoJob /\ used'.asks = used.asks
<1>1. job' = [job EXCEPT !.stage = "queued", !.reclaimed = TRUE] /\ job \in JobType /\ job # NoJob
  BY NoneAre DEF TypeOK, WorkerDies, JobType
<1>2. used'.asks = used.asks
  BY SpentIs DEF WorkerDies
<1> QED BY <1>1, <1>2 DEF JobType

\* The upkeep makes no folder and moves no app.
LEMMA UpkeepIs ==
  ASSUME TypeOK, (\E answered \in BOOLEAN : Reconcile(answered)) \/ ReconcileStopsShort
  PROVE  /\ UNCHANGED <<app, record, call, retryable, meddled>> /\ kopia' \in {kopia, "idle"}
         /\ used'.asks = used.asks /\ folder'.live = folder.live /\ folder'.next = folder.next
         /\ folder'.recorded \in {folder.recorded, folder.live}
         /\ \/ UNCHANGED <<hold, job, asked>>
            \/ /\ hold' = NoHold
               /\ job' = job \/ (job'.kind = "backup_start" /\ job'.stage = "queued")
<1>1. folder \in FolderType
  BY DEF TypeOK, FolderType
<1>2. CASE ReconcileStopsShort
  <2>1. folder' = [folder EXCEPT !.recorded = folder.live, !.known = TRUE]
        /\ UNCHANGED <<app, record, call, kopia>> /\ RestartStuck(TRUE)
    BY <1>2 DEF ReconcileStopsShort, appVars, jobVars, holdVars
  <2>2. used'.asks = used.asks
    BY <1>2, SpentIs DEF ReconcileStopsShort
  <2> QED BY <1>1, <2>1, <2>2, RestartIs DEF FolderType
<1>3. ASSUME NEW answered \in BOOLEAN, Reconcile(answered)
      PROVE  /\ UNCHANGED <<app, record, call>> /\ kopia' \in {kopia, "idle"}
             /\ used'.asks = used.asks /\ folder'.live = folder.live /\ folder'.next = folder.next
             /\ folder'.recorded \in {folder.recorded, folder.live}
             /\ RestartStuck(answered)
  <2>1. folder' \in {folder, [folder EXCEPT !.mounted = folder.live, !.recorded = folder.live],
                     [folder EXCEPT !.recorded = folder.live, !.known = TRUE]}
        /\ UNCHANGED <<app, record, call>> /\ kopia' \in {kopia, "idle"} /\ RestartStuck(answered)
    BY <1>3 DEF Reconcile, appVars, jobVars, holdVars
  <2>2. used'.asks = used.asks
    BY <1>3, SpentIs DEF Reconcile
  <2> QED BY <1>1, <2>1, <2>2 DEF FolderType
<1> QED BY <1>2, <1>3, RestartIs

-----------------------------------------------------------------------------
(* Every step. *)

\* Every step keeps the types of what is only remembered.
LEMMA HistoryStep ==
  ASSUME TypeOK, [Next]_vars
  PROVE  retryable' \subseteq Kinds /\ meddled' \in BOOLEAN
<1> USE DEF TypeOK, HookJobs, Asks, Kinds
<1>1. CASE BeforeRefuses
  BY <1>1 DEF BeforeRefuses, Answer, NoCall, appVars, jobVars, holdVars, policyVars
<1>2. CASE BeforeHolds
  BY <1>2, HoldIs DEF BeforeHolds, MayHold, Answer, NoCall, appVars, jobVars, holdVars, policyVars
<1>3. CASE BeforeReady
  BY <1>3 DEF BeforeReady, Answer, NoCall, appVars, jobVars, holdVars, policyVars
<1>4. CASE BeforeFails
  BY <1>4, QueueIs DEF BeforeFails, Answer, NoCall, appVars, jobVars, holdVars, policyVars
<1>5. CASE BeforeGivesUp
  BY <1>5, NoneAre
  DEF BeforeGivesUp, LetGo, Answer, NoCall, Waited, appVars, jobVars, holdVars, policyVars
<1>6. CASE AfterCalled
  BY <1>6, QueueIs, NoneAre
  DEF AfterCalled, LetGo, Answer, NoCall, appVars, jobVars, holdVars, policyVars
<1>7. CASE AfterEnds
  BY <1>7, NoneAre
  DEF AfterEnds, LetGo, Answer, NoCall, Waited, appVars, jobVars, holdVars, policyVars
<1>8. CASE Claim
  BY <1>8, ClaimIs, NoneAre DEF Claim, appVars, jobVars, holdVars, policyVars
<1>9. CASE BackupStop
  BY <1>9, FinishIs, NoneAre
  DEF BackupStop, Running, Stops, StopFails, appVars, jobVars, holdVars, policyVars
<1>10. CASE BackupStart
  BY <1>10, FinishIs, NoneAre
  DEF BackupStart, Running, Starts, StartFails, appVars, jobVars, holdVars, policyVars
<1>11. CASE OwnersStop
  BY <1>11, FinishIs, NoneAre
  DEF OwnersStop, Running, Stops, StopFails, appVars, jobVars, holdVars, policyVars
<1>12. CASE OwnersStart
  BY <1>12, FinishIs, NoneAre
  DEF OwnersStart, Running, Starts, StartFails, appVars, jobVars, holdVars, policyVars
<1>13. CASE RestoreRefused
  BY <1>13, FinishIs, NoneAre DEF RestoreRefused, Running, appVars, jobVars, holdVars, policyVars
<1>14. CASE RestoreSwaps
  BY <1>14 DEF RestoreSwaps, Running, appVars, jobVars, holdVars, policyVars
<1>15. CASE RestoreEnds
  BY <1>15, FinishIs, NoneAre
  DEF RestoreEnds, PutBack, PutBackFails, appVars, jobVars, holdVars, policyVars
<1>16. CASE Recover
  BY <1>16, FinishIs, NoneAre
  DEF Recover, Running, PutBack, PutBackFails, appVars, jobVars, holdVars, policyVars
<1>17. CASE StartBackup
  BY <1>17 DEF StartBackup, NoCall, appVars, jobVars, holdVars, policyVars
<1>18. CASE UploadFails
  BY <1>18 DEF UploadFails, appVars, jobVars, holdVars, policyVars
<1>19. CASE ApiDies
  BY <1>19 DEF ApiDies, Answer, NoCall, appVars, jobVars, holdVars, policyVars
<1>20. CASE KopiaRestarts
  BY <1>20 DEF KopiaRestarts, appVars, jobVars, holdVars, policyVars
<1>21. CASE WorkerDies
  BY <1>21, DeathIs DEF WorkerDies, appVars, jobVars, holdVars, policyVars
<1>22. CASE OwnerCancels
  BY <1>22, FinishIs, NoneAre DEF OwnerCancels, appVars, jobVars, holdVars, policyVars
<1>23. CASE ChangedByAnother
  BY <1>23 DEF ChangedByAnother, appVars, jobVars, holdVars, policyVars
<1>24. CASE ScheduleChanges
  BY <1>24 DEF ScheduleChanges, appVars, jobVars, holdVars, policyVars
<1>25. ASSUME NEW kind \in Asks, OwnerAsks(kind)
      PROVE  retryable' \subseteq Kinds /\ meddled' \in BOOLEAN
  BY <1>25, QueuedIs, NoneAre DEF OwnerAsks, Ask, appVars, jobVars, holdVars, policyVars
<1>26. ASSUME NEW kind \in Kinds, OwnerRetries(kind)
      PROVE  retryable' \subseteq Kinds /\ meddled' \in BOOLEAN
  BY <1>26, QueuedIs, NoneAre DEF OwnerRetries, Ask, appVars, jobVars, holdVars, policyVars
<1>27. CASE UploadEnds
  BY <1>27 DEF UploadEnds, appVars, jobVars, holdVars, policyVars
<1>28. CASE HoldAges
  BY <1>28 DEF HoldAges, appVars, jobVars, holdVars, policyVars
<1>29. ASSUME NEW answered \in BOOLEAN, Reconcile(answered)
      PROVE  retryable' \subseteq Kinds /\ meddled' \in BOOLEAN
  BY <1>29, UpkeepIs, NoneAre
<1>30. CASE ReconcileStopsShort
  BY <1>30, UpkeepIs, NoneAre
<1>31. CASE UNCHANGED vars
  BY <1>31 DEF vars, appVars, policyVars
<1> QED
  BY <1>1, <1>2, <1>3, <1>4, <1>5, <1>6, <1>7, <1>8, <1>9, <1>10, <1>11, <1>12, <1>13, <1>14,
     <1>15, <1>16, <1>17, <1>18, <1>19, <1>20, <1>21, <1>22, <1>23, <1>24, <1>25, <1>26, <1>27,
          <1>28,
     <1>29, <1>30, <1>31
  DEF Next, Hooks, Jobs, World

\* Every step keeps the types; a restore finds a folder left to make.
LEMMA TypeStep ==
  ASSUME TypeOK, CountInv, [Next]_vars
  PROVE  TypeOK'
<1>0. retryable' \subseteq Kinds /\ meddled' \in BOOLEAN
  BY HistoryStep
<1>1. CASE BeforeRefuses
  <2>1. call' \in CallType
    BY <1>1, AnswerIs DEF BeforeRefuses, TypeOK, CallType
  <2>2. kopia' \in {"idle", "before", "upload", "after"}
    BY <1>1, AnswerIs DEF BeforeRefuses, TypeOK
  <2>3. UNCHANGED <<app, record, folder, note, job, hold, asked, chosen, policy, applied,
                    failed, used>>
    BY <1>1 DEF BeforeRefuses, appVars, jobVars, holdVars, policyVars
  <2> QED BY <1>0, <2>1, <2>2, <2>3 DEF TypeOK, CallType
<1>2. CASE BeforeHolds
  <2>1. hold' \in HoldType
    BY <1>2, HoldIs
  <2>2. job' \in JobType
    BY <1>2, HoldIs
  <2>3. asked' \in AskedType
    BY <1>2, HoldIs
  <2>4. call' \in CallType
    BY <1>2, AnswerIs DEF BeforeHolds, TypeOK, CallType
  <2>5. kopia' \in {"idle", "before", "upload", "after"}
    BY <1>2, AnswerIs DEF BeforeHolds, TypeOK
  <2>6. UNCHANGED <<app, record, folder, note, chosen, policy, applied, failed, used>>
    BY <1>2 DEF BeforeHolds, appVars, jobVars, holdVars, policyVars
  <2> QED BY <1>0, <2>1, <2>2, <2>3, <2>4, <2>5, <2>6 DEF TypeOK, AskedType, CallType, HoldType,
       JobType
<1>3. CASE BeforeReady
  <2>1. call' \in CallType
    BY <1>3, AnswerIs DEF BeforeReady, TypeOK, CallType
  <2>2. kopia' \in {"idle", "before", "upload", "after"}
    BY <1>3, AnswerIs DEF BeforeReady, TypeOK
  <2>3. UNCHANGED <<app, record, folder, note, job, hold, asked, chosen, policy, applied,
                    failed, used>>
    BY <1>3 DEF BeforeReady, appVars, jobVars, holdVars, policyVars
  <2> QED BY <1>0, <2>1, <2>2, <2>3 DEF TypeOK, CallType
<1>4. CASE BeforeFails
  <2>1. job' \in JobType
    BY <1>4, QueueIs DEF BeforeFails, TypeOK, JobType, HookJobs, jobVars
  <2>2. asked' \in AskedType
    BY <1>4, QueueIs DEF BeforeFails, TypeOK, AskedType, HookJobs
  <2>3. call' \in CallType
    BY <1>4, AnswerIs DEF BeforeFails, TypeOK, CallType
  <2>4. kopia' \in {"idle", "before", "upload", "after"}
    BY <1>4, AnswerIs DEF BeforeFails, TypeOK
  <2>5. used' \in UsedType
    BY <1>4, SpentIs DEF BeforeFails, TypeOK, UsedType
  <2>6. UNCHANGED <<app, record, folder, note, hold, chosen, policy, applied, failed>>
    BY <1>4 DEF BeforeFails, appVars, jobVars, holdVars, policyVars
  <2> QED BY <1>0, <2>1, <2>2, <2>3, <2>4, <2>5, <2>6 DEF TypeOK, AskedType, CallType, JobType,
       UsedType
<1>5. CASE BeforeGivesUp
  <2>1. hold' \in HoldType
    BY <1>5, NoneAre DEF BeforeGivesUp, LetGo, TypeOK, HoldType
  <2>2. call' \in CallType
    BY <1>5, AnswerIs DEF BeforeGivesUp, TypeOK, CallType
  <2>3. kopia' \in {"idle", "before", "upload", "after"}
    BY <1>5, AnswerIs DEF BeforeGivesUp, TypeOK
  <2>4. used' \in UsedType
    BY <1>5, SpentIs DEF BeforeGivesUp, Waited, TypeOK, UsedType
  <2>5. UNCHANGED <<app, record, folder, note, job, asked, chosen, policy, applied, failed>>
    BY <1>5 DEF BeforeGivesUp, appVars, jobVars, holdVars, policyVars
  <2> QED BY <1>0, <2>1, <2>2, <2>3, <2>4, <2>5 DEF TypeOK, CallType, HoldType, UsedType
<1>6. CASE AfterCalled
  <2>1. hold' \in HoldType
    BY <1>6, NoneAre DEF AfterCalled, LetGo, TypeOK, HoldType, holdVars
  <2>2. job' \in JobType
    BY <1>6, QueueIs DEF AfterCalled, TypeOK, JobType, HookJobs, jobVars
  <2>3. asked' \in AskedType
    BY <1>6, QueueIs DEF AfterCalled, TypeOK, AskedType, HookJobs
  <2>4. call' \in CallType
    BY <1>6, AnswerIs DEF AfterCalled, TypeOK, CallType
  <2>5. kopia' \in {"idle", "before", "upload", "after"}
    BY <1>6, AnswerIs DEF AfterCalled, TypeOK
  <2>6. UNCHANGED <<app, record, folder, note, chosen, policy, applied, failed, used>>
    BY <1>6 DEF AfterCalled, appVars, jobVars, holdVars, policyVars
  <2> QED BY <1>0, <2>1, <2>2, <2>3, <2>4, <2>5, <2>6 DEF TypeOK, AskedType, CallType, HoldType,
       JobType
<1>7. CASE AfterEnds
  <2>1. hold' \in HoldType
    BY <1>7, NoneAre DEF AfterEnds, LetGo, TypeOK, HoldType
  <2>2. call' \in CallType
    BY <1>7, AnswerIs DEF AfterEnds, TypeOK, CallType
  <2>3. kopia' \in {"idle", "before", "upload", "after"}
    BY <1>7, AnswerIs DEF AfterEnds, TypeOK
  <2>4. used' \in UsedType
    BY <1>7, SpentIs DEF AfterEnds, Waited, TypeOK, UsedType
  <2>5. UNCHANGED <<app, record, folder, note, job, asked, chosen, policy, applied, failed>>
    BY <1>7 DEF AfterEnds, appVars, jobVars, holdVars, policyVars
  <2> QED BY <1>0, <2>1, <2>2, <2>3, <2>4, <2>5 DEF TypeOK, CallType, HoldType, UsedType
<1>8. CASE Claim
  <2>1. job' \in JobType
    <3>1. job' = NoJob \/ job' = [job EXCEPT !.stage = "running", !.was = record # "stopped"]
      BY <1>8 DEF Claim, FinishJob
    <3> QED BY <3>1, NoneAre, MovedIs
  <2>2. asked' \in AskedType
    BY <1>8, FinishIs, NoneAre, MovedIs DEF Claim, TypeOK, AskedType
  <2>3. UNCHANGED <<app, record, folder, note, hold, call, kopia, chosen, policy, applied,
                    failed, used>>
    BY <1>8 DEF Claim, appVars, jobVars, holdVars, policyVars
  <2> QED BY <1>0, <2>1, <2>2, <2>3 DEF TypeOK, AskedType, JobType
<1>9. CASE BackupStop
  <2>1. app' \in BOOLEAN
    BY <1>9 DEF BackupStop, Stops, StopFails, TypeOK
  <2>2. job' \in JobType
    BY <1>9, FinishIs, NoneAre DEF BackupStop, Stops, StopFails, TypeOK, JobType
  <2>3. asked' \in AskedType
    BY <1>9, FinishIs DEF BackupStop, Stops, StopFails, TypeOK, AskedType
  <2>4. used' \in UsedType
    BY <1>9, SpentIs DEF BackupStop, Stops, StopFails, TypeOK, UsedType
  <2>5. UNCHANGED <<record, folder, note, hold, call, kopia, chosen, policy, applied, failed>>
    BY <1>9 DEF BackupStop, Stops, StopFails, appVars, jobVars, holdVars, policyVars
  <2> QED BY <1>0, <2>1, <2>2, <2>3, <2>4, <2>5
     DEF TypeOK, AskedType, JobType, UsedType
<1>10. CASE BackupStart
  <2>1. app' \in BOOLEAN
    BY <1>10 DEF BackupStart, Starts, StartFails, TypeOK
  <2>2. failed' \in BOOLEAN
    BY <1>10 DEF BackupStart, Starts, StartFails, TypeOK
  <2>3. job' \in JobType
    BY <1>10, FinishIs, NoneAre DEF BackupStart, Starts, StartFails, TypeOK, JobType
  <2>4. asked' \in AskedType
    BY <1>10, FinishIs DEF BackupStart, Starts, StartFails, TypeOK, AskedType
  <2>5. used' \in UsedType
    BY <1>10, SpentIs DEF BackupStart, Starts, StartFails, TypeOK, UsedType
  <2>6. UNCHANGED <<record, folder, note, hold, call, kopia, chosen, policy, applied>>
    BY <1>10 DEF BackupStart, Starts, StartFails, appVars, jobVars, holdVars, policyVars
  <2> QED BY <1>0, <2>1, <2>2, <2>3, <2>4, <2>5, <2>6
     DEF TypeOK, AskedType, JobType, UsedType
<1>11. CASE OwnersStop
  <2>1. app' \in BOOLEAN
    BY <1>11 DEF OwnersStop, Stops, StopFails, TypeOK
  <2>2. record' \in {"running", "stopped", "queued", "failed"}
    BY <1>11 DEF OwnersStop, Stops, StopFails, TypeOK
  <2>3. job' \in JobType
    BY <1>11, FinishIs, NoneAre DEF OwnersStop, Stops, StopFails, TypeOK, JobType
  <2>4. asked' \in AskedType
    BY <1>11, FinishIs DEF OwnersStop, Stops, StopFails, TypeOK, AskedType
  <2>5. used' \in UsedType
    BY <1>11, SpentIs DEF OwnersStop, Stops, StopFails, TypeOK, UsedType
  <2>6. UNCHANGED <<folder, note, hold, call, kopia, chosen, policy, applied, failed>>
    BY <1>11 DEF OwnersStop, Stops, StopFails, appVars, jobVars, holdVars, policyVars
  <2> QED BY <1>0, <2>1, <2>2, <2>3, <2>4, <2>5, <2>6
     DEF TypeOK, AskedType, JobType, UsedType
<1>12. CASE OwnersStart
  <2>1. app' \in BOOLEAN
    BY <1>12 DEF OwnersStart, Starts, StartFails, TypeOK
  <2>2. failed' \in BOOLEAN
    BY <1>12 DEF OwnersStart, Starts, StartFails, TypeOK
  <2>3. record' \in {"running", "stopped", "queued", "failed"}
    BY <1>12 DEF OwnersStart, Starts, StartFails, TypeOK
  <2>4. job' \in JobType
    BY <1>12, FinishIs, NoneAre DEF OwnersStart, Starts, StartFails, TypeOK, JobType
  <2>5. asked' \in AskedType
    BY <1>12, FinishIs DEF OwnersStart, Starts, StartFails, TypeOK, AskedType
  <2>6. used' \in UsedType
    BY <1>12, SpentIs DEF OwnersStart, Starts, StartFails, TypeOK, UsedType
  <2>7. UNCHANGED <<folder, note, hold, call, kopia, chosen, policy, applied>>
    BY <1>12 DEF OwnersStart, Starts, StartFails, appVars, jobVars, holdVars, policyVars
  <2> QED BY <1>0, <2>1, <2>2, <2>3, <2>4, <2>5, <2>6, <2>7
     DEF TypeOK, AskedType, JobType, UsedType
<1>13. CASE RestoreSwaps
  <2>1. app' \in BOOLEAN
    BY <1>13 DEF RestoreSwaps, TypeOK
  <2>2. folder' \in FolderType
    <3>1. folder.next <= MaxAsks /\ folder \in FolderType
      BY <1>13, BoundsAre DEF RestoreSwaps, Running, CountInv, Untried, TypeOK, FolderType,
         UsedType
    <3>2. folder' = [folder EXCEPT !.live = folder.next, !.next = @ + 1]
      BY <1>13 DEF RestoreSwaps
    <3> QED BY <3>1, <3>2, FolderIs
  <2>3. note' \in NoteType
    BY <1>13, BoundsAre DEF RestoreSwaps, NoNote, TypeOK, NoteType
  <2>4. job' \in JobType
    BY <1>13, MovedIs DEF RestoreSwaps, TypeOK, JobType
  <2>5. UNCHANGED <<record, hold, asked, call, kopia, chosen, policy, applied, failed, used>>
    BY <1>13 DEF RestoreSwaps, appVars, jobVars, holdVars, policyVars
  <2> QED BY <1>0, <2>1, <2>2, <2>3, <2>4, <2>5 DEF TypeOK, FolderType, JobType, NoteType
<1>14. CASE RestoreEnds
  <2>1. app' \in BOOLEAN
    BY <1>14 DEF RestoreEnds, PutBack, PutBackFails, appVars, TypeOK
  <2>2. record' \in {"running", "stopped", "queued", "failed"}
    BY <1>14 DEF RestoreEnds, PutBack, PutBackFails, appVars, TypeOK
  <2>3. failed' \in BOOLEAN
    BY <1>14 DEF RestoreEnds, PutBack, PutBackFails, appVars, TypeOK
  <2>4. folder' \in FolderType
    <3>1. folder \in FolderType /\ note.aside \in 0..MaxAsks
      BY DEF TypeOK, FolderType
    <3>2. folder' \in {folder, [folder EXCEPT !.live = note.aside]}
      BY <1>14 DEF RestoreEnds, PutBack, PutBackFails
    <3> QED BY <3>1, <3>2 DEF FolderType
  <2>5. note' \in NoteType
    <3>1. note \in NoteType /\ NoNote \in NoteType
      BY BoundsAre DEF TypeOK, NoNote, NoteType
    <3>2. note' \in {note, NoNote}
      BY <1>14 DEF RestoreEnds, PutBack, PutBackFails
    <3> QED BY <3>1, <3>2
  <2>6. job' \in JobType
    BY <1>14, FinishIs, NoneAre DEF RestoreEnds, TypeOK, JobType
  <2>7. asked' \in AskedType
    BY <1>14, FinishIs DEF RestoreEnds, TypeOK, AskedType
  <2>8. used' \in UsedType
    BY <1>14, SpentIs DEF RestoreEnds, TypeOK, UsedType
  <2>9. UNCHANGED <<hold, call, kopia, chosen, policy, applied>>
    BY <1>14 DEF RestoreEnds, PutBack, PutBackFails, appVars, jobVars, holdVars, policyVars
  <2> QED BY <1>0, <2>1, <2>2, <2>3, <2>4, <2>5, <2>6, <2>7, <2>8, <2>9
     DEF TypeOK, AskedType, FolderType, JobType, NoteType, UsedType
<1>15. CASE Recover
  <2>1. app' \in BOOLEAN
    BY <1>15 DEF Recover, PutBack, PutBackFails, appVars, TypeOK
  <2>2. record' \in {"running", "stopped", "queued", "failed"}
    BY <1>15 DEF Recover, PutBack, PutBackFails, appVars, TypeOK
  <2>3. failed' \in BOOLEAN
    BY <1>15 DEF Recover, PutBack, PutBackFails, appVars, TypeOK
  <2>4. folder' \in FolderType
    <3>1. folder \in FolderType /\ note.aside \in 0..MaxAsks
      BY DEF TypeOK, FolderType
    <3>2. folder' \in {folder, [folder EXCEPT !.live = note.aside]}
      BY <1>15 DEF Recover, PutBack, PutBackFails
    <3> QED BY <3>1, <3>2 DEF FolderType
  <2>5. note' \in NoteType
    <3>1. note \in NoteType /\ NoNote \in NoteType
      BY BoundsAre DEF TypeOK, NoNote, NoteType
    <3>2. note' \in {note, NoNote}
      BY <1>15 DEF Recover, PutBack, PutBackFails
    <3> QED BY <3>1, <3>2
  <2>6. job' \in JobType
    BY <1>15, FinishIs, NoneAre DEF Recover, TypeOK, JobType
  <2>7. asked' \in AskedType
    BY <1>15, FinishIs DEF Recover, TypeOK, AskedType
  <2>8. used' \in UsedType
    BY <1>15, SpentIs DEF Recover, TypeOK, UsedType
  <2>9. UNCHANGED <<hold, call, kopia, chosen, policy, applied>>
    BY <1>15 DEF Recover, PutBack, PutBackFails, appVars, jobVars, holdVars, policyVars
  <2> QED BY <1>0, <2>1, <2>2, <2>3, <2>4, <2>5, <2>6, <2>7, <2>8, <2>9
     DEF TypeOK, AskedType, FolderType, JobType, NoteType, UsedType
<1>16. CASE StartBackup
  <2>1. used' \in UsedType
    BY <1>16, BoundsAre DEF StartBackup, TypeOK, UsedType
  <2>2. kopia' \in {"idle", "before", "upload", "after"}
    BY <1>16 DEF StartBackup, TypeOK
  <2>3. call' \in CallType
    BY <1>16 DEF StartBackup, TypeOK, CallType
  <2>4. UNCHANGED <<app, record, folder, note, job, hold, asked, chosen, policy, applied, failed>>
    BY <1>16 DEF StartBackup, appVars, jobVars, holdVars, policyVars
  <2> QED BY <1>0, <2>1, <2>2, <2>3, <2>4 DEF TypeOK, CallType, UsedType
<1>17. CASE UploadFails
  <2>1. used' \in UsedType
    BY <1>17, SpentIs DEF UploadFails, TypeOK, UsedType
  <2>2. kopia' \in {"idle", "before", "upload", "after"}
    BY <1>17 DEF UploadFails, TypeOK
  <2>3. UNCHANGED <<app, record, folder, note, job, hold, asked, call, chosen, policy, applied,
                    failed>>
    BY <1>17 DEF UploadFails, appVars, jobVars, holdVars, policyVars
  <2> QED BY <1>0, <2>1, <2>2, <2>3 DEF TypeOK, UsedType
<1>18. CASE ApiDies
  <2>1. used' \in UsedType
    BY <1>18, SpentIs DEF ApiDies, TypeOK, UsedType
  <2>2. call' \in CallType
    BY <1>18, AnswerIs DEF ApiDies, TypeOK, CallType
  <2>3. kopia' \in {"idle", "before", "upload", "after"}
    BY <1>18, AnswerIs DEF ApiDies, TypeOK
  <2>4. UNCHANGED <<app, record, folder, note, job, hold, asked, chosen, policy, applied, failed>>
    BY <1>18 DEF ApiDies, appVars, jobVars, holdVars, policyVars
  <2> QED BY <1>0, <2>1, <2>2, <2>3, <2>4 DEF TypeOK, CallType, UsedType
<1>19. CASE KopiaRestarts
  <2>1. used' \in UsedType
    BY <1>19, BoundsAre DEF KopiaRestarts, TypeOK, UsedType
  <2>2. kopia' \in {"idle", "before", "upload", "after"}
    BY <1>19 DEF KopiaRestarts, TypeOK
  <2>3. folder' \in FolderType
    BY <1>19, BoundsAre DEF KopiaRestarts, TypeOK, FolderType
  <2>4. policy' \in PolicyType
    BY <1>19, PoliciesAre DEF KopiaRestarts, TypeOK, PolicyType
  <2>5. UNCHANGED <<app, record, note, job, hold, asked, call, chosen, applied, failed>>
    BY <1>19 DEF KopiaRestarts, appVars, jobVars, holdVars, policyVars
  <2> QED BY <1>0, <2>1, <2>2, <2>3, <2>4, <2>5 DEF TypeOK, FolderType, PolicyType, UsedType
<1>20. CASE WorkerDies
  <2>1. used' \in UsedType
    BY <1>20, SpentIs DEF WorkerDies, TypeOK, UsedType
  <2>2. job' \in JobType
    BY <1>20, MovedIs DEF WorkerDies, TypeOK, JobType
  <2>3. app' \in BOOLEAN
    BY <1>20 DEF WorkerDies, TypeOK
  <2>4. UNCHANGED <<record, folder, note, hold, asked, call, kopia, chosen, policy, applied,
                    failed>>
    BY <1>20 DEF WorkerDies, appVars, jobVars, holdVars, policyVars
  <2> QED BY <1>0, <2>1, <2>2, <2>3, <2>4
     DEF TypeOK, JobType, UsedType
<1>21. CASE ChangedByAnother
  <2>1. app' \in BOOLEAN
    BY <1>21 DEF ChangedByAnother, TypeOK
  <2>2. record' \in {"running", "stopped", "queued", "failed"}
    BY <1>21 DEF ChangedByAnother, TypeOK
  <2>3. failed' \in BOOLEAN
    BY <1>21 DEF ChangedByAnother, TypeOK
  <2>4. used' \in UsedType
    BY <1>21, BoundsAre DEF ChangedByAnother, TypeOK, UsedType
  <2>5. UNCHANGED <<folder, note, job, hold, asked, call, kopia, chosen, policy, applied>>
    BY <1>21 DEF ChangedByAnother, appVars, jobVars, holdVars, policyVars
  <2> QED BY <1>0, <2>1, <2>2, <2>3, <2>4, <2>5 DEF TypeOK, UsedType
<1>22. CASE ScheduleChanges
  <2>1. used' \in UsedType
    BY <1>22, BoundsAre DEF ScheduleChanges, TypeOK, UsedType
  <2>2. chosen' \in Schedules
    BY <1>22 DEF ScheduleChanges, TypeOK
  <2>3. policy' \in PolicyType
    <3>1. policy' = policy \/ policy' = [policy EXCEPT !.own = "other", !.loaded = "other"]
      BY <1>22 DEF ScheduleChanges
    <3>2. policy \in PolicyType
      BY DEF TypeOK, PolicyType
    <3>3. [policy EXCEPT !.own = "other", !.loaded = "other"] \in PolicyType
      BY <3>2 DEF PolicyType
    <3> QED BY <3>1, <3>2, <3>3
  <2>4. UNCHANGED <<app, record, folder, note, job, hold, asked, call, kopia, applied, failed>>
    BY <1>22 DEF ScheduleChanges, appVars, jobVars, holdVars, policyVars
  <2> QED BY <1>0, <2>1, <2>2, <2>3, <2>4 DEF TypeOK, PolicyType, UsedType
<1>23. ASSUME NEW kind \in Asks, OwnerAsks(kind)
      PROVE  TypeOK'
  <2>1. job' \in JobType
    BY <1>23, QueuedIs, BoundsAre DEF OwnerAsks, Ask, Kinds, TypeOK, JobType
  <2>2. used' \in UsedType
    BY <1>23, BoundsAre DEF OwnerAsks, Ask, TypeOK, UsedType
  <2>3. record' \in {"running", "stopped", "queued", "failed"}
    BY <1>23 DEF OwnerAsks, TypeOK
  <2>4. UNCHANGED <<app, folder, note, hold, asked, call, kopia, chosen, policy, applied, failed>>
    BY <1>23 DEF OwnerAsks, appVars, jobVars, holdVars, policyVars
  <2> QED BY <1>0, <2>1, <2>2, <2>3, <2>4
     DEF TypeOK, JobType, UsedType
<1>24. CASE UploadEnds
  <2>1. call' \in CallType
    BY <1>24 DEF UploadEnds, TypeOK, CallType
  <2>2. kopia' \in {"idle", "before", "upload", "after"}
    BY <1>24 DEF UploadEnds, TypeOK
  <2>3. UNCHANGED <<app, record, folder, note, job, hold, asked, chosen, policy, applied,
                    failed, used>>
    BY <1>24 DEF UploadEnds, appVars, jobVars, holdVars, policyVars
  <2> QED BY <1>0, <2>1, <2>2, <2>3 DEF TypeOK, CallType
<1>25. CASE HoldAges
  <2>1. hold' \in HoldType
    BY <1>25, NoneAre DEF HoldAges, TypeOK, HoldType
  <2>2. UNCHANGED <<app, record, folder, note, job, asked, call, kopia, chosen, policy, applied,
                    failed, used>>
    BY <1>25 DEF HoldAges, appVars, jobVars, holdVars, policyVars
  <2> QED BY <1>0, <2>1, <2>2 DEF TypeOK, HoldType
<1>26. ASSUME NEW answered \in BOOLEAN, Reconcile(answered)
      PROVE  TypeOK'
  <2>1. hold' \in HoldType
    BY <1>26, RestartIs DEF Reconcile
  <2>2. job' \in JobType
    BY <1>26, RestartIs DEF Reconcile
  <2>3. asked' \in AskedType
    BY <1>26, RestartIs DEF Reconcile
  <2>4. folder' \in FolderType
    <3>1. folder' \in {folder, [folder EXCEPT !.mounted = folder.live, !.recorded = folder.live],
                       [folder EXCEPT !.recorded = folder.live, !.known = TRUE]}
      BY <1>26 DEF Reconcile
    <3>2. folder \in FolderType
      BY DEF TypeOK, FolderType
    <3> QED BY <3>1, <3>2, FolderIs
  <2>5. policy' \in PolicyType
    <3>1. policy \in PolicyType
      BY DEF TypeOK, PolicyType
    <3> QED BY <1>26, <3>1, PoliciesAre, SetPoliciesIs DEF Reconcile
  <2>6. applied' \in AppliedType
    <3>1. applied \in AppliedType
      BY DEF TypeOK, AppliedType
    <3> QED BY <1>26, <3>1, PoliciesAre, SetPoliciesIs DEF Reconcile
  <2>7. kopia' \in {"idle", "before", "upload", "after"}
    BY <1>26 DEF Reconcile, TypeOK
  <2>8. used' \in UsedType
    BY <1>26, SpentIs DEF Reconcile, TypeOK, UsedType
  <2>9. UNCHANGED <<app, record, note, call, chosen, failed>>
    BY <1>26 DEF Reconcile, appVars, jobVars, holdVars, policyVars
  <2> QED BY <1>0, <2>1, <2>2, <2>3, <2>4, <2>5, <2>6, <2>7, <2>8, <2>9
     DEF TypeOK, AppliedType, AskedType, FolderType, HoldType, JobType, PolicyType, UsedType
<1>27. CASE ReconcileStopsShort
  <2>1. hold' \in HoldType
    BY <1>27, RestartIs DEF ReconcileStopsShort
  <2>2. job' \in JobType
    BY <1>27, RestartIs DEF ReconcileStopsShort
  <2>3. asked' \in AskedType
    BY <1>27, RestartIs DEF ReconcileStopsShort
  <2>4. folder' \in FolderType
    BY <1>27, BoundsAre DEF ReconcileStopsShort, TypeOK, FolderType
  <2>5. policy' \in PolicyType
    BY <1>27, PoliciesAre, SetPoliciesIs DEF ReconcileStopsShort, TypeOK, PolicyType
  <2>6. applied' \in AppliedType
    BY <1>27, PoliciesAre, SetPoliciesIs DEF ReconcileStopsShort, TypeOK, AppliedType
  <2>7. used' \in UsedType
    BY <1>27, SpentIs DEF ReconcileStopsShort, TypeOK, UsedType
  <2>8. UNCHANGED <<app, record, note, call, kopia, chosen, failed>>
    BY <1>27 DEF ReconcileStopsShort, appVars, jobVars, holdVars, policyVars
  <2> QED BY <1>0, <2>1, <2>2, <2>3, <2>4, <2>5, <2>6, <2>7, <2>8
     DEF TypeOK, AppliedType, AskedType, FolderType, HoldType, JobType, PolicyType, UsedType
<1>28. CASE UNCHANGED vars
  BY <1>28 DEF vars, TypeOK
<1>29. ASSUME NEW kind \in Kinds, OwnerRetries(kind)
      PROVE  TypeOK'
  <2>1. job' \in JobType
    BY <1>29, QueuedIs, BoundsAre DEF OwnerRetries, Ask, TypeOK, JobType
  <2>2. used' \in UsedType
    BY <1>29, BoundsAre DEF OwnerRetries, Ask, TypeOK, UsedType
  <2>3. UNCHANGED <<app, record, folder, note, hold, asked, call, kopia, chosen, policy,
                    applied, failed>>
    BY <1>29 DEF OwnerRetries, appVars, jobVars, holdVars, policyVars
  <2> QED BY <1>0, <2>1, <2>2, <2>3
     DEF TypeOK, JobType, UsedType
<1>30. CASE OwnerCancels
  <2>1. app' \in BOOLEAN
    BY <1>30 DEF OwnerCancels, TypeOK
  <2>2. job' \in JobType
    BY <1>30, FinishIs, NoneAre DEF OwnerCancels, TypeOK, JobType
  <2>3. asked' \in AskedType
    BY <1>30, FinishIs DEF OwnerCancels, TypeOK, AskedType
  <2>4. used' \in UsedType
    BY <1>30, BoundsAre DEF OwnerCancels, TypeOK, UsedType
  <2>5. UNCHANGED <<record, folder, note, hold, call, kopia, chosen, policy, applied, failed>>
    BY <1>30 DEF OwnerCancels, appVars, jobVars, holdVars, policyVars
  <2> QED BY <1>0, <2>1, <2>2, <2>3, <2>4, <2>5
     DEF TypeOK, AskedType, JobType, UsedType
<1>31. CASE RestoreRefused
  <2>1. job' \in JobType
    BY <1>31, FinishIs, NoneAre DEF RestoreRefused, TypeOK, JobType
  <2>2. asked' \in AskedType
    BY <1>31, FinishIs DEF RestoreRefused, TypeOK, AskedType
  <2>3. used' \in UsedType
    BY <1>31, SpentIs DEF RestoreRefused, TypeOK, UsedType
  <2>4. UNCHANGED <<app, record, folder, note, hold, call, kopia, chosen, policy, applied, failed>>
    BY <1>31 DEF RestoreRefused, appVars, jobVars, holdVars, policyVars
  <2> QED BY <1>0, <2>1, <2>2, <2>3, <2>4
     DEF TypeOK, AskedType, JobType, UsedType
<1> QED
  BY <1>1, <1>2, <1>3, <1>4, <1>5, <1>6, <1>7, <1>8, <1>9, <1>10, <1>11, <1>12, <1>13, <1>14,
     <1>15, <1>16, <1>17, <1>18, <1>19, <1>20, <1>21, <1>22, <1>23, <1>24, <1>25, <1>26, <1>27,
     <1>28, <1>29, <1>30, <1>31
  DEF Next, Hooks, Jobs, World

\* Every step keeps the count of the folders made.
LEMMA CountStep ==
  ASSUME TypeOK, CountInv, [Next]_vars
  PROVE  CountInv'
<1> USE BoundsAre
    DEF TypeOK, CountInv, Untried, Asks, HookJobs, Kinds, Outcomes, JobType, AskedType
<1>1. CASE BeforeRefuses
  BY <1>1 DEF BeforeRefuses, Answer, NoCall, appVars, jobVars, holdVars, policyVars
<1>2. CASE BeforeHolds
  <2>1. job' = job \/ (job'.stage = "queued" /\ job'.kind = "backup_stop")
    BY <1>2, HoldIs
  <2>2. folder' = folder /\ used' = used
    BY <1>2 DEF BeforeHolds
  <2> QED BY <2>1, <2>2
<1>3. CASE BeforeReady
  BY <1>3 DEF BeforeReady, Answer, NoCall, appVars, jobVars, holdVars, policyVars
<1>4. CASE BeforeFails
  BY <1>4, QueueIs, SpentIs DEF BeforeFails, Answer, NoCall, appVars, jobVars, holdVars, policyVars
<1>5. CASE BeforeGivesUp
  BY <1>5, NoneAre, SpentIs
  DEF BeforeGivesUp, LetGo, Answer, NoCall, Waited, appVars, jobVars, holdVars, policyVars
<1>6. CASE AfterCalled
  BY <1>6, QueueIs, NoneAre
  DEF AfterCalled, LetGo, Answer, NoCall, appVars, jobVars, holdVars, policyVars
<1>7. CASE AfterEnds
  BY <1>7, NoneAre, SpentIs
  DEF AfterEnds, LetGo, Answer, NoCall, Waited, appVars, jobVars, holdVars, policyVars
<1>8. CASE Claim
  BY <1>8, ClaimIs, NoneAre DEF Claim, appVars, jobVars, holdVars, policyVars
<1>9. CASE BackupStop
  BY <1>9, FinishIs, NoneAre, SpentIs
  DEF BackupStop, Running, Stops, StopFails, appVars, jobVars, holdVars, policyVars
<1>10. CASE BackupStart
  BY <1>10, FinishIs, NoneAre, SpentIs
  DEF BackupStart, Running, Starts, StartFails, appVars, jobVars, holdVars, policyVars
<1>11. CASE OwnersStop
  BY <1>11, FinishIs, NoneAre, SpentIs
  DEF OwnersStop, Running, Stops, StopFails, appVars, jobVars, holdVars, policyVars
<1>12. CASE OwnersStart
  BY <1>12, FinishIs, NoneAre, SpentIs
  DEF OwnersStart, Running, Starts, StartFails, appVars, jobVars, holdVars, policyVars
<1>13. CASE RestoreRefused
  BY <1>13, FinishIs, NoneAre, SpentIs
  DEF RestoreRefused, Running, appVars, jobVars, holdVars, policyVars
<1>14. CASE RestoreSwaps
  BY <1>14 DEF RestoreSwaps, Running, appVars, jobVars, holdVars, policyVars
<1>15. CASE RestoreEnds
  BY <1>15, FinishIs, NoneAre, SpentIs
  DEF RestoreEnds, PutBack, PutBackFails, appVars, jobVars, holdVars, policyVars
<1>16. CASE Recover
  BY <1>16, FinishIs, NoneAre, SpentIs
  DEF Recover, Running, PutBack, PutBackFails, appVars, jobVars, holdVars, policyVars
<1>17. CASE StartBackup
  BY <1>17 DEF StartBackup, NoCall, appVars, jobVars, holdVars, policyVars
<1>18. CASE UploadFails
  BY <1>18, SpentIs DEF UploadFails, appVars, jobVars, holdVars, policyVars
<1>19. CASE ApiDies
  BY <1>19, SpentIs DEF ApiDies, Answer, NoCall, appVars, jobVars, holdVars, policyVars
<1>20. CASE KopiaRestarts
  BY <1>20 DEF KopiaRestarts, appVars, jobVars, holdVars, policyVars
<1>21. CASE WorkerDies
  <2>1. job'.stage = "queued" /\ job'.reclaimed /\ used'.asks = used.asks
    BY <1>21, DeathIs
  <2>2. folder' = folder
    BY <1>21 DEF WorkerDies
  <2> QED BY <2>1, <2>2
<1>22. CASE OwnerCancels
  BY <1>22, FinishIs, NoneAre DEF OwnerCancels, appVars, jobVars, holdVars, policyVars
<1>23. CASE ChangedByAnother
  BY <1>23 DEF ChangedByAnother, appVars, jobVars, holdVars, policyVars
<1>24. CASE ScheduleChanges
  BY <1>24 DEF ScheduleChanges, appVars, jobVars, holdVars, policyVars
<1>25. ASSUME NEW kind \in Asks, OwnerAsks(kind)
      PROVE  CountInv'
  BY <1>25, QueuedIs, NoneAre DEF OwnerAsks, Ask, appVars, jobVars, holdVars, policyVars
<1>26. ASSUME NEW kind \in Kinds, OwnerRetries(kind)
      PROVE  CountInv'
  BY <1>26, QueuedIs, NoneAre DEF OwnerRetries, Ask, appVars, jobVars, holdVars, policyVars
<1>27. CASE UploadEnds
  BY <1>27 DEF UploadEnds, appVars, jobVars, holdVars, policyVars
<1>28. CASE HoldAges
  BY <1>28 DEF HoldAges, appVars, jobVars, holdVars, policyVars
<1>29. ASSUME NEW answered \in BOOLEAN, Reconcile(answered)
      PROVE  CountInv'
  BY <1>29, UpkeepIs, NoneAre
<1>30. CASE ReconcileStopsShort
  BY <1>30, UpkeepIs, NoneAre
<1>31. CASE UNCHANGED vars
  BY <1>31 DEF vars, appVars, policyVars
<1> QED
  BY <1>1, <1>2, <1>3, <1>4, <1>5, <1>6, <1>7, <1>8, <1>9, <1>10, <1>11, <1>12, <1>13, <1>14,
     <1>15, <1>16, <1>17, <1>18, <1>19, <1>20, <1>21, <1>22, <1>23, <1>24, <1>25, <1>26, <1>27,
          <1>28,
     <1>29, <1>30, <1>31
  DEF Next, Hooks, Jobs, World

\* Every step keeps the call and the server together.
LEMMA CallStep ==
  ASSUME CallInv, TypeOK, [Next]_vars
  PROVE  CallInv'
<1> USE BoundsAre DEF CallInv, TypeOK
<1>1. CASE BeforeRefuses
  BY <1>1 DEF BeforeRefuses, Answer, NoCall, appVars, jobVars, holdVars, policyVars
<1>2. CASE BeforeHolds
  BY <1>2, HoldIs DEF BeforeHolds, MayHold, Answer, NoCall, appVars, jobVars, holdVars, policyVars
<1>3. CASE BeforeReady
  BY <1>3 DEF BeforeReady, Answer, NoCall, appVars, jobVars, holdVars, policyVars
<1>4. CASE BeforeFails
  BY <1>4, QueueIs DEF BeforeFails, Answer, NoCall, appVars, jobVars, holdVars, policyVars
<1>5. CASE BeforeGivesUp
  BY <1>5, NoneAre
  DEF BeforeGivesUp, LetGo, Answer, NoCall, Waited, appVars, jobVars, holdVars, policyVars
<1>6. CASE AfterCalled
  BY <1>6, QueueIs, NoneAre
  DEF AfterCalled, LetGo, Answer, NoCall, appVars, jobVars, holdVars, policyVars
<1>7. CASE AfterEnds
  BY <1>7, NoneAre
  DEF AfterEnds, LetGo, Answer, NoCall, Waited, appVars, jobVars, holdVars, policyVars
<1>8. CASE Claim
  BY <1>8, ClaimIs, NoneAre DEF Claim, appVars, jobVars, holdVars, policyVars
<1>9. CASE BackupStop
  BY <1>9, FinishIs, NoneAre
  DEF BackupStop, Running, Stops, StopFails, appVars, jobVars, holdVars, policyVars
<1>10. CASE BackupStart
  BY <1>10, FinishIs, NoneAre
  DEF BackupStart, Running, Starts, StartFails, appVars, jobVars, holdVars, policyVars
<1>11. CASE OwnersStop
  BY <1>11, FinishIs, NoneAre
  DEF OwnersStop, Running, Stops, StopFails, appVars, jobVars, holdVars, policyVars
<1>12. CASE OwnersStart
  BY <1>12, FinishIs, NoneAre
  DEF OwnersStart, Running, Starts, StartFails, appVars, jobVars, holdVars, policyVars
<1>13. CASE RestoreRefused
  BY <1>13, FinishIs, NoneAre DEF RestoreRefused, Running, appVars, jobVars, holdVars, policyVars
<1>14. CASE RestoreSwaps
  BY <1>14 DEF RestoreSwaps, Running, appVars, jobVars, holdVars, policyVars
<1>15. CASE RestoreEnds
  BY <1>15, FinishIs, NoneAre
  DEF RestoreEnds, PutBack, PutBackFails, appVars, jobVars, holdVars, policyVars
<1>16. CASE Recover
  BY <1>16, FinishIs, NoneAre
  DEF Recover, Running, PutBack, PutBackFails, appVars, jobVars, holdVars, policyVars
<1>17. CASE StartBackup
  BY <1>17 DEF StartBackup, NoCall, appVars, jobVars, holdVars, policyVars
<1>18. CASE UploadFails
  BY <1>18 DEF UploadFails, appVars, jobVars, holdVars, policyVars
<1>19. CASE ApiDies
  BY <1>19 DEF ApiDies, Answer, NoCall, appVars, jobVars, holdVars, policyVars
<1>20. CASE KopiaRestarts
  BY <1>20 DEF KopiaRestarts, appVars, jobVars, holdVars, policyVars
<1>21. CASE WorkerDies
  BY <1>21, DeathIs DEF WorkerDies, appVars, jobVars, holdVars, policyVars
<1>22. CASE OwnerCancels
  BY <1>22, FinishIs, NoneAre DEF OwnerCancels, appVars, jobVars, holdVars, policyVars
<1>23. CASE ChangedByAnother
  BY <1>23 DEF ChangedByAnother, appVars, jobVars, holdVars, policyVars
<1>24. CASE ScheduleChanges
  BY <1>24 DEF ScheduleChanges, appVars, jobVars, holdVars, policyVars
<1>25. ASSUME NEW kind \in Asks, OwnerAsks(kind)
      PROVE  CallInv'
  BY <1>25, QueuedIs, NoneAre DEF OwnerAsks, Ask, appVars, jobVars, holdVars, policyVars
<1>26. ASSUME NEW kind \in Kinds, OwnerRetries(kind)
      PROVE  CallInv'
  BY <1>26, QueuedIs, NoneAre DEF OwnerRetries, Ask, appVars, jobVars, holdVars, policyVars
<1>27. CASE UploadEnds
  BY <1>27 DEF UploadEnds, appVars, jobVars, holdVars, policyVars
<1>28. CASE HoldAges
  BY <1>28 DEF HoldAges, appVars, jobVars, holdVars, policyVars
<1>29. ASSUME NEW answered \in BOOLEAN, Reconcile(answered)
      PROVE  CallInv'
  BY <1>29, UpkeepIs, NoneAre
<1>30. CASE ReconcileStopsShort
  BY <1>30, UpkeepIs, NoneAre
<1>31. CASE UNCHANGED vars
  BY <1>31 DEF vars, appVars, policyVars
<1> QED
  BY <1>1, <1>2, <1>3, <1>4, <1>5, <1>6, <1>7, <1>8, <1>9, <1>10, <1>11, <1>12, <1>13, <1>14,
     <1>15, <1>16, <1>17, <1>18, <1>19, <1>20, <1>21, <1>22, <1>23, <1>24, <1>25, <1>26, <1>27,
          <1>28,
     <1>29, <1>30, <1>31
  DEF Next, Hooks, Jobs, World

\* Every step keeps what holds while an app is held.
LEMMA HeldStep ==
  ASSUME TypeOK, CallInv, HeldInv, [Next]_vars
  PROVE  HeldInv'
<1> USE BoundsAre DEF TypeOK, CallInv, HeldInv, HookJobs, Asks, Kinds, Held, JobType
<1>1. CASE BeforeRefuses
  BY <1>1 DEF BeforeRefuses, Answer, NoCall, appVars, jobVars, holdVars, policyVars
<1>2. CASE BeforeHolds
  <2>1. \/ ~hold'.was_running
        \/ record # "stopped" /\ job'.stage = "queued" /\ job'.kind = "backup_stop"
        \/ UNCHANGED <<hold, meddled, job>>
    BY <1>2, HoldIs
  <2>2. folder' = folder /\ record' = record /\ folder.recorded = folder.live
    BY <1>2 DEF BeforeHolds, MayHold, appVars
  <2> QED BY <2>1, <2>2
<1>3. CASE BeforeReady
  BY <1>3 DEF BeforeReady, Answer, NoCall, appVars, jobVars, holdVars, policyVars
<1>4. CASE BeforeFails
  BY <1>4, QueueIs DEF BeforeFails, Answer, NoCall, appVars, jobVars, holdVars, policyVars
<1>5. CASE BeforeGivesUp
  BY <1>5, NoneAre
  DEF BeforeGivesUp, LetGo, Answer, NoCall, Waited, appVars, jobVars, holdVars, policyVars
<1>6. CASE AfterCalled
  BY <1>6, QueueIs, NoneAre
  DEF AfterCalled, LetGo, Answer, NoCall, appVars, jobVars, holdVars, policyVars
<1>7. CASE AfterEnds
  BY <1>7, NoneAre
  DEF AfterEnds, LetGo, Answer, NoCall, Waited, appVars, jobVars, holdVars, policyVars
<1>8. CASE Claim
  BY <1>8, ClaimIs, NoneAre DEF Claim, appVars, jobVars, holdVars, policyVars
<1>9. CASE BackupStop
  BY <1>9, FinishIs, NoneAre
  DEF BackupStop, Running, Stops, StopFails, appVars, jobVars, holdVars, policyVars
<1>10. CASE BackupStart
  BY <1>10, FinishIs, NoneAre
  DEF BackupStart, Running, Starts, StartFails, appVars, jobVars, holdVars, policyVars
<1>11. CASE OwnersStop
  BY <1>11, FinishIs, NoneAre
  DEF OwnersStop, Running, Stops, StopFails, appVars, jobVars, holdVars, policyVars
<1>12. CASE OwnersStart
  BY <1>12, FinishIs, NoneAre
  DEF OwnersStart, Running, Starts, StartFails, appVars, jobVars, holdVars, policyVars
<1>13. CASE RestoreRefused
  BY <1>13, FinishIs, NoneAre DEF RestoreRefused, Running, appVars, jobVars, holdVars, policyVars
<1>14. CASE RestoreSwaps
  BY <1>14 DEF RestoreSwaps, Running, appVars, jobVars, holdVars, policyVars
<1>15. CASE RestoreEnds
  BY <1>15, FinishIs, NoneAre
  DEF RestoreEnds, PutBack, PutBackFails, appVars, jobVars, holdVars, policyVars
<1>16. CASE Recover
  BY <1>16, FinishIs, NoneAre
  DEF Recover, Running, PutBack, PutBackFails, appVars, jobVars, holdVars, policyVars
<1>17. CASE StartBackup
  BY <1>17 DEF StartBackup, NoCall, appVars, jobVars, holdVars, policyVars
<1>18. CASE UploadFails
  BY <1>18 DEF UploadFails, appVars, jobVars, holdVars, policyVars
<1>19. CASE ApiDies
  BY <1>19 DEF ApiDies, Answer, NoCall, appVars, jobVars, holdVars, policyVars
<1>20. CASE KopiaRestarts
  BY <1>20 DEF KopiaRestarts, appVars, jobVars, holdVars, policyVars
<1>21. CASE WorkerDies
  BY <1>21, DeathIs DEF WorkerDies, appVars, jobVars, holdVars, policyVars
<1>22. CASE OwnerCancels
  BY <1>22, FinishIs, NoneAre DEF OwnerCancels, appVars, jobVars, holdVars, policyVars
<1>23. CASE ChangedByAnother
  BY <1>23 DEF ChangedByAnother, appVars, jobVars, holdVars, policyVars
<1>24. CASE ScheduleChanges
  BY <1>24 DEF ScheduleChanges, appVars, jobVars, holdVars, policyVars
<1>25. ASSUME NEW kind \in Asks, OwnerAsks(kind)
      PROVE  HeldInv'
  BY <1>25, QueuedIs, NoneAre DEF OwnerAsks, Ask, appVars, jobVars, holdVars, policyVars
<1>26. ASSUME NEW kind \in Kinds, OwnerRetries(kind)
      PROVE  HeldInv'
  BY <1>26, QueuedIs, NoneAre DEF OwnerRetries, Ask, appVars, jobVars, holdVars, policyVars
<1>27. CASE UploadEnds
  BY <1>27 DEF UploadEnds, appVars, jobVars, holdVars, policyVars
<1>28. CASE HoldAges
  BY <1>28 DEF HoldAges, appVars, jobVars, holdVars, policyVars
<1>29. ASSUME NEW answered \in BOOLEAN, Reconcile(answered)
      PROVE  HeldInv'
  BY <1>29, UpkeepIs, NoneAre
<1>30. CASE ReconcileStopsShort
  BY <1>30, UpkeepIs, NoneAre
<1>31. CASE UNCHANGED vars
  BY <1>31 DEF vars, appVars, policyVars
<1> QED
  BY <1>1, <1>2, <1>3, <1>4, <1>5, <1>6, <1>7, <1>8, <1>9, <1>10, <1>11, <1>12, <1>13, <1>14,
     <1>15, <1>16, <1>17, <1>18, <1>19, <1>20, <1>21, <1>22, <1>23, <1>24, <1>25, <1>26, <1>27,
          <1>28,
     <1>29, <1>30, <1>31
  DEF Next, Hooks, Jobs, World

\* Every step keeps what a waiting call relies on.
LEMMA StoppingStep ==
  ASSUME IInv, [Next]_vars
  PROVE  StoppingInv'
<1> USE BoundsAre
    DEF IInv, TypeOK, CallInv, HeldInv, StoppingInv, HookJobs, Asks, Kinds, Held, JobType,
        AskedType, Outcomes
<1>1. CASE BeforeRefuses
  BY <1>1 DEF BeforeRefuses, Answer, NoCall, appVars, jobVars, holdVars, policyVars
<1>2. CASE BeforeHolds
  <2>1. \/ ~hold'.was_running
        \/ job'.kind = "backup_stop" /\ asked'.backup_stop = "active"
        \/ call' = NoCall
    BY <1>2, HoldIs
  <2>2. NoCall.at = "none"
    BY DEF NoCall
  <2> QED BY <2>1, <2>2
<1>3. CASE BeforeReady
  BY <1>3 DEF BeforeReady, Answer, NoCall, appVars, jobVars, holdVars, policyVars
<1>4. CASE BeforeFails
  BY <1>4, QueueIs DEF BeforeFails, Answer, NoCall, appVars, jobVars, holdVars, policyVars
<1>5. CASE BeforeGivesUp
  BY <1>5, NoneAre
  DEF BeforeGivesUp, LetGo, Answer, NoCall, Waited, appVars, jobVars, holdVars, policyVars
<1>6. CASE AfterCalled
  BY <1>6, QueueIs, NoneAre
  DEF AfterCalled, LetGo, Answer, NoCall, appVars, jobVars, holdVars, policyVars
<1>7. CASE AfterEnds
  BY <1>7, NoneAre
  DEF AfterEnds, LetGo, Answer, NoCall, Waited, appVars, jobVars, holdVars, policyVars
<1>8. CASE Claim
  BY <1>8, ClaimIs, NoneAre DEF Claim, appVars, jobVars, holdVars, policyVars
<1>9. CASE BackupStop
  <2>1. job.kind = "backup_stop" /\ UNCHANGED <<hold, meddled, call>>
    BY <1>9 DEF BackupStop, Running, holdVars
  <2>2. CASE Stops
    BY <2>1, <2>2, FinishIs DEF Stops
  <2>3. CASE StopFails
    <3>1. job' = NoJob
      BY <2>3, FinishIs DEF StopFails
    <3>2. asked' = asked \/ asked' = [asked EXCEPT !["backup_stop"] = "failed"]
      BY <2>1, <2>3, FinishIs DEF StopFails
    <3>3. asked.backup_stop = "active" => asked'.backup_stop # "succeeded"
      BY <3>2
    <3>4. job # NoJob
      BY <2>1, NoneAre
    <3> QED BY <2>1, <3>1, <3>3, <3>4
  <2> QED BY <1>9, <2>2, <2>3 DEF BackupStop
<1>10. CASE BackupStart
  BY <1>10, FinishIs, NoneAre
  DEF BackupStart, Running, Starts, StartFails, appVars, jobVars, holdVars, policyVars
<1>11. CASE OwnersStop
  BY <1>11, FinishIs, NoneAre
  DEF OwnersStop, Running, Stops, StopFails, appVars, jobVars, holdVars, policyVars
<1>12. CASE OwnersStart
  BY <1>12, FinishIs, NoneAre
  DEF OwnersStart, Running, Starts, StartFails, appVars, jobVars, holdVars, policyVars
<1>13. CASE RestoreRefused
  BY <1>13, FinishIs, NoneAre DEF RestoreRefused, Running, appVars, jobVars, holdVars, policyVars
<1>14. CASE RestoreSwaps
  BY <1>14 DEF RestoreSwaps, Running, appVars, jobVars, holdVars, policyVars
<1>15. CASE RestoreEnds
  BY <1>15, FinishIs, NoneAre
  DEF RestoreEnds, PutBack, PutBackFails, appVars, jobVars, holdVars, policyVars
<1>16. CASE Recover
  BY <1>16, FinishIs, NoneAre
  DEF Recover, Running, PutBack, PutBackFails, appVars, jobVars, holdVars, policyVars
<1>17. CASE StartBackup
  BY <1>17 DEF StartBackup, NoCall, appVars, jobVars, holdVars, policyVars
<1>18. CASE UploadFails
  BY <1>18 DEF UploadFails, appVars, jobVars, holdVars, policyVars
<1>19. CASE ApiDies
  BY <1>19 DEF ApiDies, Answer, NoCall, appVars, jobVars, holdVars, policyVars
<1>20. CASE KopiaRestarts
  BY <1>20 DEF KopiaRestarts, appVars, jobVars, holdVars, policyVars
<1>21. CASE WorkerDies
  BY <1>21, DeathIs DEF WorkerDies, appVars, jobVars, holdVars, policyVars
<1>22. CASE OwnerCancels
  <2>1. UNCHANGED <<hold, meddled, call>> /\ job # NoJob
    BY <1>22, NoneAre DEF OwnerCancels, holdVars
  <2>2. job' = NoJob
    BY <1>22, FinishIs DEF OwnerCancels
  <2>3. asked' = asked \/ asked' = [asked EXCEPT ![job.kind] = "cancelled"]
    BY <1>22, FinishIs DEF OwnerCancels
  <2>4. asked.backup_stop = "active" => asked'.backup_stop # "succeeded"
    BY <2>3
  <2> QED BY <2>1, <2>2, <2>4
<1>23. CASE ChangedByAnother
  BY <1>23 DEF ChangedByAnother, appVars, jobVars, holdVars, policyVars
<1>24. CASE ScheduleChanges
  BY <1>24 DEF ScheduleChanges, appVars, jobVars, holdVars, policyVars
<1>25. ASSUME NEW kind \in Asks, OwnerAsks(kind)
      PROVE  StoppingInv'
  BY <1>25, QueuedIs, NoneAre DEF OwnerAsks, Ask, appVars, jobVars, holdVars, policyVars
<1>26. ASSUME NEW kind \in Kinds, OwnerRetries(kind)
      PROVE  StoppingInv'
  BY <1>26, QueuedIs, NoneAre DEF OwnerRetries, Ask, appVars, jobVars, holdVars, policyVars
<1>27. CASE UploadEnds
  BY <1>27 DEF UploadEnds, appVars, jobVars, holdVars, policyVars
<1>28. CASE HoldAges
  BY <1>28 DEF HoldAges, appVars, jobVars, holdVars, policyVars
<1>29. ASSUME NEW answered \in BOOLEAN, Reconcile(answered)
      PROVE  StoppingInv'
  BY <1>29, UpkeepIs, NoneAre
<1>30. CASE ReconcileStopsShort
  BY <1>30, UpkeepIs, NoneAre
<1>31. CASE UNCHANGED vars
  BY <1>31 DEF vars, appVars, policyVars
<1> QED
  BY <1>1, <1>2, <1>3, <1>4, <1>5, <1>6, <1>7, <1>8, <1>9, <1>10, <1>11, <1>12, <1>13, <1>14,
     <1>15, <1>16, <1>17, <1>18, <1>19, <1>20, <1>21, <1>22, <1>23, <1>24, <1>25, <1>26, <1>27,
          <1>28,
     <1>29, <1>30, <1>31
  DEF Next, Hooks, Jobs, World

\* Every step keeps what a copy relies on.
LEMMA CopyStep ==
  ASSUME IInv, [Next]_vars
  PROVE  CopyInv'
<1> USE BoundsAre
    DEF IInv, TypeOK, CallInv, HeldInv, StoppingInv, CopyInv, HookJobs, Asks, Kinds, Held,
        JobType
<1>1. CASE BeforeRefuses
  BY <1>1 DEF BeforeRefuses, Answer, NoCall, appVars, jobVars, holdVars, policyVars
<1>2. CASE BeforeHolds
  BY <1>2, HoldIs DEF BeforeHolds, MayHold, Answer, NoCall, appVars, jobVars, holdVars, policyVars
<1>3. CASE BeforeReady
  BY <1>3 DEF BeforeReady, Answer, NoCall, appVars, jobVars, holdVars, policyVars
<1>4. CASE BeforeFails
  BY <1>4, QueueIs DEF BeforeFails, Answer, NoCall, appVars, jobVars, holdVars, policyVars
<1>5. CASE BeforeGivesUp
  BY <1>5, NoneAre
  DEF BeforeGivesUp, LetGo, Answer, NoCall, Waited, appVars, jobVars, holdVars, policyVars
<1>6. CASE AfterCalled
  BY <1>6, QueueIs, NoneAre
  DEF AfterCalled, LetGo, Answer, NoCall, appVars, jobVars, holdVars, policyVars
<1>7. CASE AfterEnds
  BY <1>7, NoneAre
  DEF AfterEnds, LetGo, Answer, NoCall, Waited, appVars, jobVars, holdVars, policyVars
<1>8. CASE Claim
  BY <1>8, ClaimIs, NoneAre DEF Claim, appVars, jobVars, holdVars, policyVars
<1>9. CASE BackupStop
  BY <1>9, FinishIs, NoneAre
  DEF BackupStop, Running, Stops, StopFails, appVars, jobVars, holdVars, policyVars
<1>10. CASE BackupStart
  BY <1>10, FinishIs, NoneAre
  DEF BackupStart, Running, Starts, StartFails, appVars, jobVars, holdVars, policyVars
<1>11. CASE OwnersStop
  BY <1>11, FinishIs, NoneAre
  DEF OwnersStop, Running, Stops, StopFails, appVars, jobVars, holdVars, policyVars
<1>12. CASE OwnersStart
  BY <1>12, FinishIs, NoneAre
  DEF OwnersStart, Running, Starts, StartFails, appVars, jobVars, holdVars, policyVars
<1>13. CASE RestoreRefused
  BY <1>13, FinishIs, NoneAre DEF RestoreRefused, Running, appVars, jobVars, holdVars, policyVars
<1>14. CASE RestoreSwaps
  BY <1>14 DEF RestoreSwaps, Running, appVars, jobVars, holdVars, policyVars
<1>15. CASE RestoreEnds
  BY <1>15, FinishIs, NoneAre
  DEF RestoreEnds, PutBack, PutBackFails, appVars, jobVars, holdVars, policyVars
<1>16. CASE Recover
  BY <1>16, FinishIs, NoneAre
  DEF Recover, Running, PutBack, PutBackFails, appVars, jobVars, holdVars, policyVars
<1>17. CASE StartBackup
  BY <1>17 DEF StartBackup, NoCall, appVars, jobVars, holdVars, policyVars
<1>18. CASE UploadFails
  BY <1>18 DEF UploadFails, appVars, jobVars, holdVars, policyVars
<1>19. CASE ApiDies
  BY <1>19 DEF ApiDies, Answer, NoCall, appVars, jobVars, holdVars, policyVars
<1>20. CASE KopiaRestarts
  BY <1>20 DEF KopiaRestarts, appVars, jobVars, holdVars, policyVars
<1>21. CASE WorkerDies
  BY <1>21, DeathIs DEF WorkerDies, appVars, jobVars, holdVars, policyVars
<1>22. CASE OwnerCancels
  BY <1>22, FinishIs, NoneAre DEF OwnerCancels, appVars, jobVars, holdVars, policyVars
<1>23. CASE ChangedByAnother
  BY <1>23 DEF ChangedByAnother, appVars, jobVars, holdVars, policyVars
<1>24. CASE ScheduleChanges
  BY <1>24 DEF ScheduleChanges, appVars, jobVars, holdVars, policyVars
<1>25. ASSUME NEW kind \in Asks, OwnerAsks(kind)
      PROVE  CopyInv'
  BY <1>25, QueuedIs, NoneAre DEF OwnerAsks, Ask, appVars, jobVars, holdVars, policyVars
<1>26. ASSUME NEW kind \in Kinds, OwnerRetries(kind)
      PROVE  CopyInv'
  BY <1>26, QueuedIs, NoneAre DEF OwnerRetries, Ask, appVars, jobVars, holdVars, policyVars
<1>27. CASE UploadEnds
  BY <1>27 DEF UploadEnds, appVars, jobVars, holdVars, policyVars
<1>28. CASE HoldAges
  BY <1>28 DEF HoldAges, appVars, jobVars, holdVars, policyVars
<1>29. ASSUME NEW answered \in BOOLEAN, Reconcile(answered)
      PROVE  CopyInv'
  BY <1>29, UpkeepIs, NoneAre
<1>30. CASE ReconcileStopsShort
  BY <1>30, UpkeepIs, NoneAre
<1>31. CASE UNCHANGED vars
  BY <1>31 DEF vars, appVars, policyVars
<1> QED
  BY <1>1, <1>2, <1>3, <1>4, <1>5, <1>6, <1>7, <1>8, <1>9, <1>10, <1>11, <1>12, <1>13, <1>14,
     <1>15, <1>16, <1>17, <1>18, <1>19, <1>20, <1>21, <1>22, <1>23, <1>24, <1>25, <1>26, <1>27,
          <1>28,
     <1>29, <1>30, <1>31
  DEF Next, Hooks, Jobs, World

-----------------------------------------------------------------------------
(* The theorems. *)

\* The invariant holds at the start, every step keeps it, and so it holds
\* always.
THEOREM Invariance == Spec => []IInv
<1>1. ASSUME Init
      PROVE  IInv
  <2>1. app = TRUE /\ failed = FALSE /\ record = "running" /\ kopia = "idle"
        /\ job = NoJob /\ hold = NoHold /\ asked = Unasked(0) /\ call = NoCall
    BY <1>1 DEF Init
  <2>2. folder \in FolderType /\ folder.next = 1 /\ folder.recorded = folder.live
    BY <1>1, BoundsAre DEF Init, FolderType
  <2>3. note \in NoteType
    BY <1>1, BoundsAre DEF Init, NoNote, NoteType
  <2>4. call \in CallType /\ call.at = "none" /\ call.action = "none"
    BY <2>1 DEF NoCall, CallType
  <2>5. chosen \in Schedules /\ policy \in PolicyType
    BY <1>1, BoundsAre DEF Init, PolicyType
  <2>6. applied \in AppliedType
    <3>1. applied = [global |-> Default, own |-> TRUE, repaired |-> FALSE]
      BY <1>1 DEF Init
    <3>2. Default \in Schedules \cup {"none"} /\ TRUE \in BOOLEAN /\ FALSE \in BOOLEAN
      BY BoundsAre
    <3> QED BY <3>1, <3>2, Zenon DEF AppliedType
  <2>7. used \in UsedType /\ used.asks = 0
    BY <1>1, BoundsAre DEF Init, UsedType
  <2>8. job \in JobType /\ hold \in HoldType /\ asked \in AskedType
    <3>1. 0 \in 0..MaxBackups
      BY BoundsAre
    <3> QED BY <2>1, <3>1, NoneAre
  <2>10. retryable = {} /\ meddled = FALSE
    BY <1>1 DEF Init
  <2>9. TypeOK
    BY <2>10, <2>1, <2>2, <2>3, <2>4, <2>5, <2>6, <2>7, <2>8
    DEF TypeOK, FolderType, NoteType, CallType, PolicyType, AppliedType, UsedType, JobType,
        HoldType, AskedType
  <2> QED BY <2>1, <2>2, <2>4, <2>7, <2>9, NoneAre
          DEF IInv, CountInv, Untried, CallInv, HeldInv, StoppingInv, CopyInv
<1>2. IInv /\ [Next]_vars => IInv'
  BY TypeStep, CountStep, CallStep, HeldStep, StoppingStep, CopyStep DEF IInv
<1> QED BY <1>1, <1>2, PTL DEF Spec

\* A step lets a hold go under a copy only when the server has been silent for
\* the longer limit: a call that is served means that nothing is copied, and
\* the upkeep asks the server first.
LEMMA CopyIsHeld ==
  IInv /\ [Next]_vars =>
    [kopia = "upload" /\ kopia' = "upload" /\ Held /\ hold' = NoHold => hold.age = "old"]_vars
<1> SUFFICES ASSUME IInv, Next, kopia = "upload", kopia' = "upload", Held, hold' = NoHold
             PROVE  hold.age = "old"
  BY DEF vars
<1>1. call.action = "none" /\ call.at = "none" /\ TypeOK /\ hold' # hold
  BY DEF IInv, CallInv, Held, TypeOK
<1>2. CASE Hooks
  BY <1>1, <1>2 DEF Hooks, LetGo, holdVars, BeforeRefuses, BeforeHolds, BeforeReady,
       BeforeFails, BeforeGivesUp,
                    AfterCalled, AfterEnds
<1>3. CASE Jobs
  BY <1>1, <1>3 DEF Jobs, holdVars, Claim, BackupStop, BackupStart, OwnersStop, OwnersStart,
       RestoreRefused,
                    RestoreSwaps, RestoreEnds, Recover
<1>4. CASE World
  BY <1>1, <1>4 DEF World, holdVars, StartBackup, UploadFails, ApiDies, KopiaRestarts, WorkerDies,
                    ChangedByAnother, ScheduleChanges, OwnerAsks, OwnerRetries,
                    OwnerCancels
<1>5. CASE UploadEnds \/ HoldAges
  <2>1. HoldAges => hold'.age \in {"stuck", "old"}
    BY <1>1 DEF HoldAges, TypeOK
  <2> QED BY <1>1, <1>5, <2>1 DEF UploadEnds, holdVars, NoHold
<1>6. ASSUME NEW answered \in BOOLEAN, RestartStuck(answered)
      PROVE  hold.age = "old"
  <2>1. Stuck(answered)
    BY <1>1, <1>6, RestartIs
  <2> QED BY <2>1 DEF Stuck
<1> QED BY <1>2, <1>3, <1>4, <1>5, <1>6 DEF Next, Reconcile, ReconcileStopsShort

\* What Kopia copies is at rest from the start of the copy to its end, and is
\* the folder the server was checked against; the hold goes only from a server
\* that has been silent for long (CopiedAtRest).
THEOREM CopiesAreAtRest == Spec => CopiedAtRest
<1>1. IInv => TypeOK /\ HeldMeansStopped /\ FolderStaysPut
  BY DEF IInv, CopyInv, HeldInv, HeldMeansStopped, FolderStaysPut
<1>2. Spec => [][kopia = "upload" /\ kopia' = "upload" /\ Held /\ hold' = NoHold
                   => hold.age = "old"]_vars
  BY CopyIsHeld, Invariance, PTL DEF Spec
<1> QED BY <1>1, <1>2, Invariance, PTL DEF CopiedAtRest, CopiesKeepTheirHold
=============================================================================
