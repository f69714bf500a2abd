--------------------------- MODULE JobQueueProofs ---------------------------
(***************************************************************************)
(* Theorems about JobQueue for any sets of jobs, callers, services, keys    *)
(* and workers and any tick counts.                                         *)
(***************************************************************************)
EXTENDS JobQueue, TLAPS

USE DEF rows, api, loop, procs, vars

(* Every variable keeps its type (all of JobQueue). *)
LEMMA InitType == Init => TypeOK
BY BoundAssumption, LegacyAssumption DEF Init, TypeOK, States, Active, Terminal, PCs, Running

LEMMA SubmitType ==
  ASSUME TypeOK, NEW caller \in Callers, NEW k \in Keys \union {NoKey}, NEW s \in Services \union {NoService},
         NEW ns \in {"jobs", "jobs.retry"}, NEW payload \in Commands \union Jobs,
         NEW states \in [Jobs -> States],
         Submit([caller |-> caller, namespace |-> ns, payload |-> payload], s, k, states)
  PROVE  TypeOK'
<1> DEFINE r == [caller |-> caller, namespace |-> ns, payload |-> payload]
<1>1. r \in Request
  BY DEF Request
<1>2. \A j \in Jobs : Remember(r, k, j) => remembered' \subseteq [caller : Callers, namespace : {"jobs", "jobs.retry"},
                           key : Keys, payload : Commands \union Jobs, job : Jobs]
  BY <1>1 DEF Remember, TypeOK
<1>3. CASE Join(r, s, k, states)
  <2>1. state' \in [Jobs -> States]
    BY <1>3 DEF Join
  <2>2. remembered' \subseteq [caller : Callers, namespace : {"jobs", "jobs.retry"}, key : Keys,
                           payload : Commands \union Jobs, job : Jobs]
    BY <1>2, <1>3 DEF Join, ActiveOf
  <2> QED
    BY <2>1, <2>2, <1>3 DEF Submit, Join, TypeOK
<1>4. CASE Insert(r, s, k, states)
  <2>1. PICK j \in Jobs :
       /\ state' = [states EXCEPT ![j] = "queued"]
       /\ service' = [service EXCEPT ![j] = s]
       /\ request' = [request EXCEPT ![j] = r]
       /\ key' = [key EXCEPT ![j] = k]
       /\ order' = Append(order, j)
       /\ Remember(r, k, j)
    BY <1>4 DEF Insert
  <2>2. state' \in [Jobs -> States]
    BY <2>1 DEF States, Active
  <2>3. /\ service' \in [Jobs -> Services \union {NoService}]
        /\ request' \in [Jobs -> Request \union {NoRequest}]
        /\ key' \in [Jobs -> Keys \union {NoKey}]
        /\ order' \in Seq(Jobs)
    BY <2>1, <1>1 DEF TypeOK
  <2>4. remembered' \subseteq [caller : Callers, namespace : {"jobs", "jobs.retry"}, key : Keys,
                           payload : Commands \union Jobs, job : Jobs]
    BY <2>1, <1>2
  <2> QED
    BY <2>2, <2>3, <2>4 DEF Submit, TypeOK
<1> QED
  BY <1>3, <1>4 DEF Submit

THEOREM TypeCorrect == Spec => []TypeOK
<1>1. ASSUME TypeOK, [Next]_vars PROVE TypeOK'
  <2> USE <1>1, BoundAssumption, NoneAssumption
  <2>0. /\ state \in [Jobs -> States] /\ owner \in [Jobs -> Workers \union {NoWorker}]
        /\ lease \in [Jobs -> 0 .. LeaseTicks] /\ claims \in [Jobs -> 0 .. 2]
        /\ pc \in [Workers -> PCs] /\ job \in [Workers -> Jobs \union {NoJob}]
        /\ shielded \in [Workers -> BOOLEAN] /\ lost \in [Workers -> BOOLEAN]
        /\ age \in [Workers -> 0 .. LeaseTicks] /\ todo \in [Workers -> 0 .. MaxCommands]
        /\ alive \in [Workers -> BOOLEAN] /\ tracked \in [Workers -> BOOLEAN]
        /\ left \in [Workers -> 0 .. DeadlineTicks + GraceTicks] /\ after \in [Jobs -> 0 .. 2]
    BY DEF TypeOK
  <2>1. ASSUME NEW c \in Callers, NEW k \in Keys \union {NoKey}, NEW d \in Commands, Create(c, d, k)
        PROVE  TypeOK'
    BY <2>1, SubmitType, ServiceAssumption DEF Create, TypeOK
  <2>2. ASSUME NEW c \in Callers, NEW k \in Keys \union {NoKey}, NEW j \in Jobs, Retry(c, j, k)
        PROVE  TypeOK'
    <3>1. (IF state[j] = "failed" THEN state ELSE [state EXCEPT ![j] = "cancelled"]) \in [Jobs -> States]
      BY DEF TypeOK, States, Terminal
    <3> QED
      BY <2>2, <3>1, SubmitType DEF Retry, TypeOK
  <2>3. ASSUME NEW j \in Jobs, RequestCancel(j) PROVE TypeOK'
    BY <2>3 DEF RequestCancel, TypeOK
  <2>4. ASSUME NEW j \in Jobs, CancelNow(j) PROVE TypeOK'
    <3>1. state' \in [Jobs -> States]
      BY <2>4 DEF CancelNow, TypeOK, States, Terminal
    <3>2. owner' \in [Jobs -> Workers \union {NoWorker}] /\ lease' \in [Jobs -> 0 .. LeaseTicks]
      BY <2>0, <2>4 DEF CancelNow
    <3>3. cancelling' \subseteq Jobs
      BY <2>4 DEF CancelNow, TypeOK
    <3> QED BY <2>4, <3>1, <3>2, <3>3 DEF CancelNow, TypeOK
  <2>5. ASSUME NEW w \in Workers, Start(w) PROVE TypeOK'
    BY <2>5 DEF Start, Go, TypeOK, PCs
  <2>6. ASSUME NEW w \in Workers, AcquireLock(w) PROVE TypeOK'
    BY <2>6 DEF AcquireLock, LockFree, Go, TypeOK, PCs
  <2>7. ASSUME NEW w \in Workers, Settle(w) PROVE TypeOK'
    <3>1. pc' \in [Workers -> PCs]
      BY <2>0, <2>7 DEF Settle, Go, PCs
    <3>2. alive' \in [Workers -> BOOLEAN]
      BY <2>0, <2>7, Zenon DEF Settle, Kill
    <3>3. left' \in [Workers -> 0 .. DeadlineTicks + GraceTicks]
      BY <2>0, <2>7 DEF Settle, Kill
    <3>4. tracked' \in [Workers -> BOOLEAN]
      <4>1. tracked' = [v \in Workers |-> v \in Leftovers]
        BY <2>7 DEF Settle
      <4>2. \A v \in Workers : (v \in Leftovers) \in BOOLEAN
        OBVIOUS
      <4> HIDE <1>1, <2>7
      <4> QED BY <4>1, <4>2, Zenon
    <3> QED BY <2>7, <3>1, <3>2, <3>3, <3>4 DEF Settle, TypeOK
  <2>8. ASSUME NEW w \in Workers, Claim(w) PROVE TypeOK'
    <3>1. CASE Positions = {}
      <4>1. state' \in [Jobs -> States]
        BY <2>0, <2>8, <3>1 DEF Claim, States, Terminal
      <4>2. owner' \in [Jobs -> Workers \union {NoWorker}]
        BY <2>0, <2>8, <3>1 DEF Claim
      <4>3. pc' \in [Workers -> PCs]
        BY <2>0, <2>8, <3>1 DEF Claim, Go, PCs
      <4> QED BY <2>8, <3>1, <4>1, <4>2, <4>3 DEF Claim, TypeOK
    <3>2. CASE Positions # {}
      <4>1. state' \in [Jobs -> States]
        BY <2>0, <2>8, <3>2 DEF Claim, States, Active, Terminal
      <4>2. owner' \in [Jobs -> Workers \union {NoWorker}] /\ lease' \in [Jobs -> 0 .. LeaseTicks]
        BY <2>0, <2>8, <3>2 DEF Claim
      <4>3. claims' \in [Jobs -> 0 .. 2]
        BY <2>0, <2>8, <3>2 DEF Claim
      <4>4. pc' \in [Workers -> PCs] /\ job' \in [Workers -> Jobs \union {NoJob}]
        BY <2>0, <2>8, <3>2 DEF Claim, Go, PCs, Running
      <4>5. age' \in [Workers -> 0 .. LeaseTicks] /\ todo' \in [Workers -> 0 .. MaxCommands]
        BY <2>0, <2>8, <3>2 DEF Claim
      <4>6. shielded' \in [Workers -> BOOLEAN] /\ lost' \in [Workers -> BOOLEAN]
        BY <2>0, <2>8, <3>2 DEF Claim
      <4> QED BY <2>8, <3>2, <4>1, <4>2, <4>3, <4>4, <4>5, <4>6 DEF Claim, TypeOK
    <3> QED BY <3>1, <3>2
  <2>9. ASSUME NEW w \in Workers, Checkpoint(w) PROVE TypeOK'
    <3>1. Interruption(w) \in {"none", "unwind_lost", "unwind_cancelled"}
      BY DEF Interruption
    <3>2. pc' \in [Workers -> PCs] /\ todo' \in [Workers -> 0 .. MaxCommands]
      BY <2>0, <2>9, <3>1 DEF Checkpoint, Deferred, Go, PCs, Running
    <3> QED BY <2>9, <3>2 DEF Checkpoint, TypeOK
  <2>10. ASSUME NEW w \in Workers, EnterShield(w) PROVE TypeOK'
    BY <2>10 DEF EnterShield, TypeOK
  <2>11. ASSUME NEW w \in Workers, LeaveShield(w) PROVE TypeOK'
    BY <2>11 DEF LeaveShield, TypeOK
  <2>12. ASSUME NEW w \in Workers, Spawn(w) PROVE TypeOK'
    <3>1. pc' \in [Workers -> PCs]
      BY <2>12 DEF Spawn, Go, TypeOK, PCs, Running
    <3>2. alive' \in [Workers -> BOOLEAN] /\ left' \in [Workers -> 0 .. DeadlineTicks + GraceTicks]
      BY <2>0, <2>12 DEF Spawn
    <3>4. after' \in [Jobs -> 0 .. 2]
      <4>1. CASE after' = after
        BY <2>0, <4>1
      <4>2. CASE after' = [after EXCEPT ![job[w]] = @ + 1] /\ after[job[w]] < 2
        <5>1. \A j \in Jobs : after'[j] = IF j = job[w] THEN after[j] + 1 ELSE after[j]
          BY <2>0, <4>2
        <5>2. \A j \in Jobs : after'[j] \in 0 .. 2
          BY <2>0, <4>2, <5>1
        <5> QED BY <2>0, <4>2, <5>2
      <4> QED BY <2>12, <4>1, <4>2 DEF Spawn
    <3> QED BY <2>12, <3>1, <3>2, <3>4 DEF Spawn, TypeOK
  <2>13. ASSUME NEW w \in Workers, Track(w) PROVE TypeOK'
    BY <2>13 DEF Track, Go, TypeOK, PCs, Running
  <2>14. ASSUME NEW w \in Workers, TrackFails(w) PROVE TypeOK'
    BY <2>14 DEF TrackFails, Go, TypeOK, PCs, Running
  <2>15. ASSUME NEW w \in Workers, CommandEnds(w) PROVE TypeOK'
    BY <2>15 DEF CommandEnds, Kill, TypeOK
  <2>16. ASSUME NEW w \in Workers, Reap(w) PROVE TypeOK'
    BY <2>16 DEF Reap, Kill, Go, TypeOK, PCs, Running
  <2>17. ASSUME NEW w \in Workers, NEW outcome \in {"succeeded", "failed"}, Finish(w, outcome) PROVE TypeOK'
    <3>1. state' \in [Jobs -> States]
      BY <2>0, <2>17 DEF Finish, CanMove, States, Terminal
    <3>2. owner' \in [Jobs -> Workers \union {NoWorker}] /\ lease' \in [Jobs -> 0 .. LeaseTicks]
      BY <2>0, <2>17 DEF Finish
    <3>3. pc' \in [Workers -> PCs] /\ job' \in [Workers -> Jobs \union {NoJob}]
      BY <2>0, <2>17 DEF Finish, EndRun, Go, PCs, Running
    <3>4. shielded' \in [Workers -> BOOLEAN] /\ lost' \in [Workers -> BOOLEAN]
      BY <2>0, <2>17 DEF Finish, EndRun
    <3>4a. age' \in [Workers -> 0 .. LeaseTicks] /\ todo' \in [Workers -> 0 .. MaxCommands]
      BY <2>0, <2>17 DEF Finish, EndRun
    <3> QED BY <2>17, <3>1, <3>2, <3>3, <3>4, <3>4a DEF Finish, TypeOK
  <2>18. ASSUME NEW w \in Workers, Unwind(w) PROVE TypeOK'
    <3>1. state' \in [Jobs -> States]
      BY <2>0, <2>18 DEF Unwind, CanMove, States, Terminal
    <3>2. owner' \in [Jobs -> Workers \union {NoWorker}] /\ lease' \in [Jobs -> 0 .. LeaseTicks]
      BY <2>0, <2>18 DEF Unwind
    <3>3. pc' \in [Workers -> PCs] /\ job' \in [Workers -> Jobs \union {NoJob}]
      BY <2>0, <2>18 DEF Unwind, EndRun, Go, PCs, Running
    <3>4. shielded' \in [Workers -> BOOLEAN] /\ lost' \in [Workers -> BOOLEAN]
      BY <2>0, <2>18 DEF Unwind, EndRun
    <3>4a. age' \in [Workers -> 0 .. LeaseTicks] /\ todo' \in [Workers -> 0 .. MaxCommands]
      BY <2>0, <2>18 DEF Unwind, EndRun
    <3> QED BY <2>18, <3>1, <3>2, <3>3, <3>4, <3>4a DEF Unwind, TypeOK
  <2>19. ASSUME NEW w \in Workers, Heartbeat(w) PROVE TypeOK'
    <3>1. lease' \in [Jobs -> 0 .. LeaseTicks]
      BY <2>0, <2>19 DEF Heartbeat
    <3>2. lost' \in [Workers -> BOOLEAN]
      BY <2>0, <2>19 DEF Heartbeat
    <3>3. age' \in [Workers -> 0 .. LeaseTicks]
      BY <2>0, <2>19 DEF Heartbeat
    <3> QED BY <2>19, <3>1, <3>2, <3>3 DEF Heartbeat, TypeOK
  <2>20. ASSUME NEW w \in Workers, HeartbeatFails(w) PROVE TypeOK'
    BY <2>20 DEF HeartbeatFails, TypeOK
  <2>21. ASSUME NEW w \in Workers, Crash(w) PROVE TypeOK'
    <3>1. pc' \in [Workers -> PCs] /\ job' \in [Workers -> Jobs \union {NoJob}]
      BY <2>21 DEF Crash, EndRun, Go, TypeOK, PCs
    <3>2. shielded' \in [Workers -> BOOLEAN] /\ lost' \in [Workers -> BOOLEAN]
      BY <2>0, <2>21 DEF Crash, EndRun
    <3>2a. age' \in [Workers -> 0 .. LeaseTicks] /\ todo' \in [Workers -> 0 .. MaxCommands]
      BY <2>0, <2>21 DEF Crash, EndRun
    <3>3. left' \in [Workers -> 0 .. DeadlineTicks + GraceTicks]
      BY <2>0, <2>21 DEF Crash, Kill
    <3>3a. alive' \in [Workers -> BOOLEAN]
      BY <2>0, <2>21 DEF Crash, Kill
    <3>4. lock' \in Workers \union {NoWorker} /\ faults' \in 0 .. MaxFaults
      BY <2>21 DEF Crash, TypeOK
    <3> QED BY <2>21, <3>1, <3>2, <3>2a, <3>3, <3>3a, <3>4 DEF Crash, TypeOK
  <2>22. ASSUME Tick PROVE TypeOK'
    BY <2>22 DEF Tick, Down, TypeOK
  <2>23. CASE UNCHANGED vars
    BY <2>23 DEF TypeOK
  <2> QED
    BY <2>1, <2>2, <2>3, <2>4, <2>5, <2>6, <2>7, <2>8, <2>9, <2>10, <2>11, <2>12, <2>13, <2>14, <2>15, <2>16,
       <2>17, <2>18, <2>19, <2>20, <2>21, <2>22, <2>23 DEF Next, Api, Worker, Program
<1> QED
  BY <1>1, InitType, PTL DEF Spec

-----------------------------------------------------------------------------
(* One worker at a time, and none over a recorded leftover. RunsAlone is not
   inductive: it needs to know who holds the lock, and that what settle() found
   still holds when the job is claimed. *)

LockHeld == \A w \in Workers : pc[w] \in {"idle", "ready"} \union Running => lock = w

SettledInv ==
  \A w \in Workers : pc[w] \in {"ready"} \union Running =>
    \A v \in Workers \ {w} : ~(alive[v] /\ tracked[v])

RunsAJob == \A w \in Workers : pc[w] \in Running => job[w] \in Jobs

AloneInv == LockHeld /\ SettledInv /\ RunsAJob

LEMMA AloneStep == TypeOK /\ AloneInv /\ [Next]_vars => AloneInv'
<1> SUFFICES ASSUME TypeOK, AloneInv, [Next]_vars PROVE AloneInv'
  OBVIOUS
<1>0. /\ pc \in [Workers -> PCs] /\ job \in [Workers -> Jobs \union {NoJob}]
      /\ alive \in [Workers -> BOOLEAN] /\ tracked \in [Workers -> BOOLEAN]
  BY DEF TypeOK
<1> USE NoneAssumption DEF AloneInv, LockHeld, SettledInv, RunsAJob, Running
<1>1. ASSUME UNCHANGED <<loop, procs>> PROVE AloneInv'
  BY <1>1
<1>2. ASSUME Api PROVE AloneInv'
  BY <1>2, <1>1 DEF Api, Create, Retry, Submit, RequestCancel, CancelNow
<1>3. ASSUME NEW w \in Workers, Start(w) PROVE AloneInv'
  BY <1>0, <1>3 DEF Start, Go
<1>4. ASSUME NEW w \in Workers, AcquireLock(w) PROVE AloneInv'
  BY <1>0, <1>4 DEF AcquireLock, LockFree, Go
<1>5. ASSUME NEW w \in Workers, Settle(w) PROVE AloneInv'
  <2>1. \A v \in Workers : alive'[v] /\ tracked'[v] => v \in Leftovers
    BY <1>0, <1>5 DEF Settle, Kill
  <2>2. \A v \in Workers \ {w} : pc[v] \notin {"idle", "ready"} \union Running /\ pc'[v] = pc[v]
    BY <1>0, <1>5 DEF Settle, Go
  <2> QED BY <1>0, <1>5, <2>1, <2>2 DEF Settle, Go
<1>6. ASSUME NEW w \in Workers, Claim(w) PROVE AloneInv'
  <2>1. CASE Positions = {}
    BY <1>0, <1>6, <2>1 DEF Claim, Go
  <2>2. CASE Positions # {}
    BY <1>0, <1>6, <2>2 DEF Claim, Go
  <2> QED BY <2>1, <2>2
<1>7. ASSUME NEW w \in Workers, Checkpoint(w) PROVE AloneInv'
  <2>1. Interruption(w) \in {"none", "unwind_lost", "unwind_cancelled"}
    BY DEF Interruption
  <2>2. pc' = [pc EXCEPT ![w] = pc'[w]] /\ pc'[w] \in Running
    BY <1>0, <1>7, <2>1 DEF Checkpoint, Deferred, Go
  <2> QED BY <1>0, <1>7, <2>2 DEF Checkpoint
<1>8. ASSUME NEW w \in Workers, EnterShield(w) \/ LeaveShield(w) PROVE AloneInv'
  BY <1>8 DEF EnterShield, LeaveShield
<1>9. ASSUME NEW w \in Workers, Spawn(w) PROVE AloneInv'
  BY <1>0, <1>9 DEF Spawn, Go
<1>10. ASSUME NEW w \in Workers, Track(w) PROVE AloneInv'
  BY <1>0, <1>10 DEF Track, Go
<1>11. ASSUME NEW w \in Workers, TrackFails(w) PROVE AloneInv'
  BY <1>0, <1>11 DEF TrackFails, Go
<1>12. ASSUME NEW w \in Workers, CommandEnds(w) PROVE AloneInv'
  BY <1>0, <1>12 DEF CommandEnds, Kill
<1>13. ASSUME NEW w \in Workers, Reap(w) PROVE AloneInv'
  BY <1>0, <1>13 DEF Reap, Kill, Go
<1>14. ASSUME NEW w \in Workers, NEW outcome \in {"succeeded", "failed"}, Finish(w, outcome) PROVE AloneInv'
  BY <1>0, <1>14 DEF Finish, EndRun, Go
<1>15. ASSUME NEW w \in Workers, Unwind(w) PROVE AloneInv'
  BY <1>0, <1>15 DEF Unwind, EndRun, Go
<1>16. ASSUME NEW w \in Workers, Heartbeat(w) \/ HeartbeatFails(w) PROVE AloneInv'
  BY <1>16 DEF Heartbeat, HeartbeatFails
<1>17. ASSUME NEW w \in Workers, Crash(w) PROVE AloneInv'
  BY <1>0, <1>17 DEF Crash, EndRun, Kill, Go
<1>18. ASSUME Tick PROVE AloneInv'
  BY <1>18 DEF Tick
<1>19. CASE UNCHANGED vars
  BY <1>19
<1> QED
  BY <1>2, <1>3, <1>4, <1>5, <1>6, <1>7, <1>8, <1>9, <1>10, <1>11, <1>12, <1>13, <1>14, <1>15, <1>16,
     <1>17, <1>18, <1>19 DEF Next, Worker, Program

(* A worker that runs a job is the only one, and no recorded command of another
   worker is running (worker.py, resource_locks.py, job_processes.py). *)
THEOREM OneWorkerRuns == Spec => []RunsAlone
<1>1. Init => AloneInv
  BY DEF Init, AloneInv, LockHeld, SettledInv, RunsAJob, Running
<1>2. AloneInv => RunsAlone
  BY NoneAssumption DEF AloneInv, LockHeld, SettledInv, RunsAlone
<1> QED
  BY <1>1, <1>2, AloneStep, TypeCorrect, PTL DEF Spec

-----------------------------------------------------------------------------
(* The rows of the jobs table. *)

LEMMA OneActiveStep == TypeOK /\ OneActivePerService /\ [Next]_vars => OneActivePerService'
<1> SUFFICES ASSUME TypeOK, OneActivePerService, [Next]_vars PROVE OneActivePerService'
  OBVIOUS
<1>0. state \in [Jobs -> States] /\ service \in [Jobs -> Services \union {NoService}]
  BY DEF TypeOK
(* Any step that keeps the services and activates no job. *)
<1>1. ASSUME service' = service, \A j \in Jobs : state'[j] \in Active => state[j] \in Active
      PROVE  OneActivePerService'
  BY <1>1 DEF OneActivePerService
<1>2. ASSUME NEW r, NEW s \in Services \union {NoService}, NEW k, NEW states \in [Jobs -> States],
             \A j \in Jobs : states[j] \in Active => state[j] \in Active,
             Submit(r, s, k, states)
      PROVE  OneActivePerService'
  <2>1. CASE Join(r, s, k, states)
    BY <1>1, <1>2, <2>1 DEF Join
  <2>2. CASE Insert(r, s, k, states)
    <3>1. PICK j \in Jobs : /\ state' = [states EXCEPT ![j] = "queued"]
                            /\ service' = [service EXCEPT ![j] = s]
                            /\ ActiveOf(s, states) = {}
      BY <2>2 DEF Insert
    <3>2. \A i \in Jobs : i # j /\ state'[i] \in Active =>
            /\ state[i] \in Active /\ service'[i] = service[i] /\ service[i] # s
      BY <1>0, <1>2, <3>1 DEF ActiveOf
    <3>3. service'[j] = s
      BY <1>0, <3>1
    <3> QED BY <3>2, <3>3 DEF OneActivePerService
  <2> QED BY <1>2, <2>1, <2>2 DEF Submit
<1>3. ASSUME NEW c \in Callers, NEW k \in Keys \union {NoKey}, NEW d \in Commands, Create(c, d, k)
      PROVE  OneActivePerService'
  BY <1>0, <1>2, <1>3, ServiceAssumption DEF Create
<1>4. ASSUME NEW c \in Callers, NEW k \in Keys \union {NoKey}, NEW j \in Jobs, Retry(c, j, k)
      PROVE  OneActivePerService'
  <2> DEFINE states == IF state[j] = "failed" THEN state ELSE [state EXCEPT ![j] = "cancelled"]
  <2>1. states \in [Jobs -> States] /\ \A i \in Jobs : states[i] \in Active => state[i] \in Active
    BY <1>0 DEF States, Active, Terminal
  <2> QED BY <1>0, <1>2, <1>4, <2>1 DEF Retry
<1>5. ASSUME NEW j \in Jobs, RequestCancel(j) \/ CancelNow(j) PROVE OneActivePerService'
  BY <1>0, <1>1, <1>5 DEF RequestCancel, CancelNow, Active
<1>6. ASSUME NEW w \in Workers, Claim(w) PROVE OneActivePerService'
  <2>1. CASE Positions = {}
    BY <1>0, <1>1, <1>6, <2>1 DEF Claim, Active
  <2>2. CASE Positions # {}
    <3>1. PICK j \in Jobs : /\ Oldest(j)
                            /\ state' = [i \in Jobs |-> CASE i = j -> "running"
                                                          [] i \in Abandoned -> "cancelled"
                                                          [] OTHER -> state[i]]
      BY <1>6, <2>2 DEF Claim
    <3>2. Claimable(j)
      BY <3>1 DEF Oldest, Positions
    <3>3. state[j] \in Active
      BY <3>2 DEF Claimable, Expired, Active
    <3>4. service' = service
      BY <1>6 DEF Claim
    <3> QED BY <1>1, <3>1, <3>3, <3>4 DEF Active
  <2> QED BY <2>1, <2>2
<1>7. ASSUME NEW w \in Workers, NEW outcome \in {"succeeded", "failed"}, Finish(w, outcome)
      PROVE  OneActivePerService'
  BY <1>0, <1>1, <1>7 DEF Finish, Active
<1>8. ASSUME NEW w \in Workers, Unwind(w) PROVE OneActivePerService'
  BY <1>0, <1>1, <1>8 DEF Unwind, Active
<1>9. ASSUME UNCHANGED <<state, service>> PROVE OneActivePerService'
  BY <1>1, <1>9
<1> QED
  BY <1>3, <1>4, <1>5, <1>6, <1>7, <1>8, <1>9
  DEF Next, Api, Worker, Program, Start, AcquireLock, Settle, Checkpoint, EnterShield, LeaveShield, Spawn,
      Track, TrackFails, CommandEnds, Reap, Heartbeat, HeartbeatFails, Crash, Tick

(* A service never has two active jobs (jobs.py create and retry). *)
THEOREM OneActiveJob == Spec => []OneActivePerService
<1>1. Init => OneActivePerService
  BY DEF Init, OneActivePerService, Active
<1> QED
  BY <1>1, OneActiveStep, TypeCorrect, PTL DEF Spec

-----------------------------------------------------------------------------
(* Idempotency keys. KeyCreatesOnce needs the mutation_requests row that every
   job created with a key leaves behind, in the same transaction. *)

KeyRemembered ==
  \A j \in Jobs : key[j] # NoKey =>
    \E m \in remembered : m.caller = request[j].caller /\ m.namespace = request[j].namespace /\ m.key = key[j]

KeyInv == KeyRemembered /\ KeyCreatesOnce

LEMMA KeyStep == TypeOK /\ KeyInv /\ [Next]_vars => KeyInv'
<1> SUFFICES ASSUME TypeOK, KeyInv, [Next]_vars PROVE KeyInv'
  OBVIOUS
<1>0. /\ key \in [Jobs -> Keys \union {NoKey}] /\ request \in [Jobs -> Request \union {NoRequest}]
      /\ \A m \in remembered : m.key \in Keys
  BY DEF TypeOK
<1>1. ASSUME key' = key, request' = request, remembered \subseteq remembered' PROVE KeyInv'
  BY <1>1 DEF KeyInv, KeyRemembered, KeyCreatesOnce
<1>2. ASSUME NEW caller \in Callers, NEW ns, NEW payload, NEW s, NEW k \in Keys \union {NoKey}, NEW states,
             Submit([caller |-> caller, namespace |-> ns, payload |-> payload], s, k, states)
      PROVE  KeyInv'
  <2> DEFINE r == [caller |-> caller, namespace |-> ns, payload |-> payload]
  <2>0. \A j : Remember(r, k, j) => remembered \subseteq remembered'
    BY DEF Remember
  <2>1. CASE Join(r, s, k, states)
    <3>1. key' = key /\ request' = request /\ remembered \subseteq remembered'
      BY <2>0, <2>1 DEF Join
    <3> QED BY <1>1, <3>1
  <2>2. CASE Insert(r, s, k, states)
    <3>1. PICK j \in Jobs : /\ request' = [request EXCEPT ![j] = r]
                            /\ key' = [key EXCEPT ![j] = k]
                            /\ Remember(r, k, j)
      BY <2>2 DEF Insert
    <3>2. request'[j] = r /\ key'[j] = k
      BY <1>0, <3>1
    <3>3. \A i \in Jobs : i # j => request'[i] = request[i] /\ key'[i] = key[i]
      BY <1>0, <3>1
    <3>4. k # NoKey => \E m \in remembered' : m.caller = caller /\ m.namespace = ns /\ m.key = k
      <4> DEFINE m == [caller |-> caller, namespace |-> ns, key |-> k, payload |-> payload, job |-> j]
      <4>1. k # NoKey => m \in remembered'
        BY <3>1 DEF Remember
      <4>2. m.caller = caller /\ m.namespace = ns /\ m.key = k
        OBVIOUS
      <4> QED BY <4>1, <4>2
    <3>5. KeyRemembered'
      <4> SUFFICES ASSUME NEW i \in Jobs, key'[i] # NoKey
                   PROVE  \E m \in remembered' : /\ m.caller = request'[i].caller
                                                 /\ m.namespace = request'[i].namespace
                                                 /\ m.key = key'[i]
        BY DEF KeyRemembered
      <4>1. CASE i = j
        <5>1. r.caller = caller /\ r.namespace = ns
          OBVIOUS
        <5> QED BY <4>1, <5>1, <3>2, <3>4
      <4>2. CASE i # j
        <5>1. PICK m \in remembered : /\ m.caller = request[i].caller
                                      /\ m.namespace = request[i].namespace
                                      /\ m.key = key[i]
          BY <4>2, <3>3 DEF KeyInv, KeyRemembered
        <5>2. m \in remembered'
          BY <2>0, <3>1
        <5> QED BY <4>2, <5>1, <5>2, <3>3
      <4> QED BY <4>1, <4>2
    <3>6. \A i \in Jobs : k # NoKey /\ key[i] = k => request[i].caller # caller \/ request[i].namespace # ns
      BY <1>2 DEF Submit, Replayed, KeyInv, KeyRemembered
    <3>7. KeyCreatesOnce'
      <4> SUFFICES ASSUME NEW i1 \in Jobs, NEW i2 \in Jobs,
                          key'[i1] # NoKey, key'[i1] = key'[i2],
                          request'[i1].caller = request'[i2].caller,
                          request'[i1].namespace = request'[i2].namespace
                   PROVE  i1 = i2
        BY DEF KeyCreatesOnce
      <4>1. CASE i1 # j /\ i2 # j
        BY <4>1, <3>3 DEF KeyInv, KeyCreatesOnce
      <4>2. CASE i1 = j /\ i2 # j
        BY <4>2, <3>2, <3>3, <3>6
      <4>3. CASE i1 # j /\ i2 = j
        BY <4>3, <3>2, <3>3, <3>6
      <4> QED BY <4>1, <4>2, <4>3
    <3> QED BY <3>5, <3>7 DEF KeyInv
  <2> QED BY <1>2, <2>1, <2>2 DEF Submit
<1>3. ASSUME NEW c \in Callers, NEW k \in Keys \union {NoKey}, NEW d \in Commands, Create(c, d, k)
      PROVE  KeyInv'
  BY <1>2, <1>3 DEF Create
<1>4. ASSUME NEW c \in Callers, NEW k \in Keys \union {NoKey}, NEW j \in Jobs, Retry(c, j, k)
      PROVE  KeyInv'
  BY <1>2, <1>4 DEF Retry
<1>5. ASSUME UNCHANGED <<key, request, remembered>> PROVE KeyInv'
  BY <1>1, <1>5
<1> QED
  BY <1>3, <1>4, <1>5
  DEF Next, Api, RequestCancel, CancelNow, Worker, Program, Start, AcquireLock, Settle, Claim, Checkpoint,
      EnterShield, LeaveShield, Spawn, Track, TrackFails, CommandEnds, Reap, Finish, Unwind, Heartbeat,
      HeartbeatFails, Crash, Tick

(* A caller's key creates at most one job per namespace (jobs.py _replay). *)
THEOREM KeyCreatesOneJob == Spec => []KeyCreatesOnce
<1>1. Init => KeyInv
  BY DEF Init, KeyInv, KeyRemembered, KeyCreatesOnce
<1>2. KeyInv => KeyCreatesOnce
  BY DEF KeyInv
<1> QED
  BY <1>1, <1>2, KeyStep, TypeCorrect, PTL DEF Spec

-----------------------------------------------------------------------------
(* A job whose cancellation was requested is never claimed again. A request is
   only noted on a running job, and no job returns to the queue. *)

CancelInv == \A j \in Jobs : cancelRequested[j] => state[j] \notin {"absent", "queued", "waiting_for_confirmation"}

LEMMA CancelStep == TypeOK /\ CancelInv /\ [Next]_vars => CancelInv'
<1> SUFFICES ASSUME TypeOK, CancelInv, [Next]_vars PROVE CancelInv'
  OBVIOUS
<1>0. state \in [Jobs -> States] /\ cancelRequested \in [Jobs -> BOOLEAN]
  BY DEF TypeOK
<1> USE DEF CancelInv
<1>1. ASSUME NEW r, NEW s, NEW k, NEW states \in [Jobs -> States],
             \A j \in Jobs : states[j] = state[j] \/ states[j] = "cancelled",
             Submit(r, s, k, states)
      PROVE  CancelInv'
  <2>1. cancelRequested' = cancelRequested
    BY <1>1 DEF Submit
  <2>2. CASE Join(r, s, k, states)
    BY <1>0, <1>1, <2>1, <2>2 DEF Join
  <2>3. CASE Insert(r, s, k, states)
    <3>1. PICK j \in Jobs : state[j] = "absent" /\ state' = [states EXCEPT ![j] = "queued"]
      BY <2>3 DEF Insert
    <3> QED BY <1>0, <1>1, <2>1, <3>1
  <2> QED BY <1>1, <2>2, <2>3 DEF Submit
<1>2. ASSUME NEW c \in Callers, NEW k \in Keys \union {NoKey}, NEW d \in Commands, Create(c, d, k)
      PROVE  CancelInv'
  BY <1>0, <1>1, <1>2 DEF Create
<1>3. ASSUME NEW c \in Callers, NEW k \in Keys \union {NoKey}, NEW j \in Jobs, Retry(c, j, k)
      PROVE  CancelInv'
  <2> DEFINE states == IF state[j] = "failed" THEN state ELSE [state EXCEPT ![j] = "cancelled"]
  <2>1. states \in [Jobs -> States] /\ \A i \in Jobs : states[i] = state[i] \/ states[i] = "cancelled"
    BY <1>0 DEF States, Terminal
  <2> QED BY <1>1, <1>3, <2>1 DEF Retry
<1>4. ASSUME NEW j \in Jobs, RequestCancel(j) PROVE CancelInv'
  BY <1>0, <1>4 DEF RequestCancel
<1>5. ASSUME NEW j \in Jobs, CancelNow(j) PROVE CancelInv'
  BY <1>0, <1>5 DEF CancelNow
<1>6. ASSUME NEW w \in Workers, Claim(w) PROVE CancelInv'
  <2>1. \A j \in Jobs : state'[j] \in {state[j], "running", "cancelled"}
    BY <1>0, <1>6 DEF Claim
  <2> QED BY <1>6, <2>1 DEF Claim
<1>7. ASSUME NEW w \in Workers, NEW outcome \in {"succeeded", "failed"}, Finish(w, outcome)
      PROVE  CancelInv'
  <2>1. \A j \in Jobs : state'[j] \in {state[j], outcome}
    BY <1>0, <1>7 DEF Finish
  <2> QED BY <1>7, <2>1 DEF Finish
<1>8. ASSUME NEW w \in Workers, Unwind(w) PROVE CancelInv'
  BY <1>0, <1>8 DEF Unwind
<1>9. ASSUME UNCHANGED <<state, cancelRequested>> PROVE CancelInv'
  BY <1>9
<1> QED
  BY <1>2, <1>3, <1>4, <1>5, <1>6, <1>7, <1>8, <1>9
  DEF Next, Api, Worker, Program, Start, AcquireLock, Settle, Checkpoint, EnterShield, LeaveShield, Spawn,
      Track, TrackFails, CommandEnds, Reap, Heartbeat, HeartbeatFails, Crash, Tick

(* claim() ends an abandoned cancelled job instead of starting it again. *)
THEOREM NoRestartAfterCancel == Spec => CancelledNeverRestarts
<1>1. Init => CancelInv
  BY DEF Init, CancelInv
<1>2. TypeOK /\ CancelInv /\ [Next]_vars =>
        [\A j \in Jobs : cancelRequested[j] /\ owner'[j] # owner[j] => owner'[j] = NoWorker]_vars
  <2> SUFFICES ASSUME TypeOK, CancelInv, Next, NEW j \in Jobs, cancelRequested[j], owner'[j] # owner[j]
               PROVE  owner'[j] = NoWorker
    OBVIOUS
  <2>0. owner \in [Jobs -> Workers \union {NoWorker}]
    BY DEF TypeOK
  <2>1. ASSUME NEW w \in Workers, Claim(w) PROVE owner'[j] = NoWorker
    <3>1. CASE Positions = {}
      BY <2>0, <2>1, <3>1 DEF Claim
    <3>2. CASE Positions # {}
      <4>1. PICK i \in Jobs : /\ Oldest(i)
                              /\ owner' = [h \in Jobs |-> CASE h = i -> w
                                                            [] h \in Abandoned -> NoWorker
                                                            [] OTHER -> owner[h]]
        BY <2>1, <3>2 DEF Claim
      <4>2. Claimable(i)
        BY <4>1 DEF Oldest, Positions
      <4>3. i # j
        BY <4>2 DEF Claimable, Abandoned, Expired, CancelInv
      <4> QED BY <2>0, <4>1, <4>3
    <3> QED BY <3>1, <3>2
  <2>2. ASSUME NEW i \in Jobs, CancelNow(i) PROVE owner'[j] = NoWorker
    BY <2>0, <2>2 DEF CancelNow
  <2>3. ASSUME NEW w \in Workers, NEW outcome \in {"succeeded", "failed"}, Finish(w, outcome)
        PROVE  owner'[j] = NoWorker
    BY <2>0, <2>3 DEF Finish
  <2>4. ASSUME NEW w \in Workers, Unwind(w) PROVE owner'[j] = NoWorker
    BY <2>0, <2>4 DEF Unwind
  <2>5. ASSUME owner' = owner PROVE FALSE
    BY <2>5
  <2> QED
    BY <2>1, <2>2, <2>3, <2>4, <2>5
    DEF Next, Api, Create, Retry, Submit, RequestCancel, Worker, Program, Start, AcquireLock, Settle, Checkpoint,
        EnterShield, LeaveShield, Spawn, Track, TrackFails, CommandEnds, Reap, Heartbeat, HeartbeatFails, Crash, Tick
<1> QED
  BY <1>1, <1>2, CancelStep, TypeCorrect, PTL DEF Spec, CancelledNeverRestarts

-----------------------------------------------------------------------------
(* Nothing after a cancellation.  A worker learns of it at its next checkpoint,
   so only the command that had passed its checkpoint starts. *)

(* The job a worker runs was started and is not over but by a cancellation: no
   other worker can end it, and a retry takes only jobs that failed or wait. *)
StillRuns == \A w \in Workers : pc[w] \in Running => state[job[w]] \in {"running", "cancelled"}

(* Once a command was started late, none that is not shielded passed its checkpoint. *)
QuietInv ==
  \A j \in Jobs :
    /\ after[j] <= 1
    /\ after[j] = 1 => /\ cancelRequested[j]
                       /\ \A w \in Workers : pc[w] = "go" /\ job[w] = j => shielded[w]

(* Every step keeps a worker's job running or cancelled. *)
LEMMA StillRunsStep == TypeOK /\ AloneInv /\ StillRuns /\ [Next]_vars => StillRuns'
<1> SUFFICES ASSUME TypeOK, AloneInv, StillRuns, [Next]_vars PROVE StillRuns'
  OBVIOUS
<1>0. /\ pc \in [Workers -> PCs] /\ job \in [Workers -> Jobs \union {NoJob}] /\ state \in [Jobs -> States]
      /\ \A w \in Workers : pc[w] \in Running => job[w] \in Jobs
      /\ \A v, w \in Workers : pc[v] \in Running /\ pc[w] \in {"ready"} \union Running => v = w
  BY DEF TypeOK, AloneInv, LockHeld, RunsAJob
<1> USE DEF StillRuns
<1>1. ASSUME NEW r, NEW s, NEW k, NEW states \in [Jobs -> States],
             \A j \in Jobs : states[j] = state[j] \/ states[j] = "cancelled",
             Submit(r, s, k, states)
      PROVE  StillRuns'
  <2>1. \A j \in Jobs : state[j] \in {"running", "cancelled"} => state'[j] \in {"running", "cancelled"}
    <3>1. CASE Join(r, s, k, states)
      BY <1>0, <1>1, <3>1 DEF Join
    <3>2. CASE Insert(r, s, k, states)
      <4>1. PICK j \in Jobs : state[j] = "absent" /\ state' = [states EXCEPT ![j] = "queued"]
        BY <3>2 DEF Insert
      <4> QED BY <1>0, <1>1, <4>1
    <3> QED BY <1>1, <3>1, <3>2 DEF Submit
  <2> QED BY <1>0, <1>1, <2>1 DEF Submit
<1>2. ASSUME NEW c \in Callers, NEW k \in Keys \union {NoKey}, NEW d \in Commands, Create(c, d, k)
      PROVE  StillRuns'
  BY <1>0, <1>1, <1>2 DEF Create
<1>3. ASSUME NEW c \in Callers, NEW k \in Keys \union {NoKey}, NEW j \in Jobs, Retry(c, j, k)
      PROVE  StillRuns'
  <2> DEFINE states == IF state[j] = "failed" THEN state ELSE [state EXCEPT ![j] = "cancelled"]
  <2>1. states \in [Jobs -> States] /\ \A i \in Jobs : states[i] = state[i] \/ states[i] = "cancelled"
    BY <1>0 DEF States, Terminal
  <2> QED BY <1>1, <1>3, <2>1 DEF Retry
<1>4. ASSUME NEW j \in Jobs, CancelNow(j) PROVE StillRuns'
  <2>1. \A i \in Jobs : state'[i] \in {state[i], "cancelled"}
    BY <1>0, <1>4 DEF CancelNow
  <2> QED BY <1>0, <1>4, <2>1 DEF CancelNow
<1>5. ASSUME NEW w \in Workers, Claim(w) PROVE StillRuns'
  <2>1. \A v \in Workers : pc[v] \notin Running
    BY <1>0, <1>5 DEF Claim, Running
  <2>2. \A v \in Workers : pc'[v] \in Running => v = w /\ Positions # {}
    BY <1>0, <1>5, <2>1 DEF Claim, Go, Running
  <2>3. ASSUME Positions # {} PROVE state'[job'[w]] \in {"running", "cancelled"}
    <3>1. PICK j \in Jobs : /\ state' = [i \in Jobs |-> CASE i = j -> "running"
                                                          [] i \in Abandoned -> "cancelled"
                                                          [] OTHER -> state[i]]
                            /\ job' = [job EXCEPT ![w] = j]
      BY <1>5, <2>3 DEF Claim
    <3>2. job'[w] = j
      BY <1>0, <3>1
    <3>3. state'[j] \in {"running", "cancelled"}
      BY <3>1
    <3> QED BY <3>2, <3>3
  <2> QED BY <2>2, <2>3
<1>6. ASSUME NEW w \in Workers, NEW outcome \in {"succeeded", "failed"}, Finish(w, outcome)
      PROVE  StillRuns'
  <2>1. \A v \in Workers : pc[v] \in Running => v = w
    BY <1>0, <1>6 DEF Finish, Running
  <2>2. CASE pc'[w] \in Running
    <3>1. state' = state /\ job' = job
      BY <1>0, <1>6, <2>2 DEF Finish, Go, Running
    <3> QED BY <1>0, <1>6, <2>1, <3>1 DEF Finish, Go, Running
  <2>3. CASE pc'[w] \notin Running
    BY <1>0, <1>6, <2>1, <2>3 DEF Finish, Go
  <2> QED BY <2>2, <2>3
<1>7. ASSUME NEW w \in Workers, Unwind(w) PROVE StillRuns'
  BY <1>0, <1>7 DEF Unwind, Go, Running, EndRun
<1>8. ASSUME UNCHANGED state,
             \A w \in Workers : pc'[w] \in Running => pc[w] \in Running /\ job'[w] = job[w]
      PROVE  StillRuns'
  BY <1>8
<1>9. ASSUME NEW w \in Workers,
             Start(w) \/ AcquireLock(w) \/ Settle(w) \/ Checkpoint(w) \/ EnterShield(w) \/ LeaveShield(w)
             \/ Spawn(w) \/ Track(w) \/ TrackFails(w) \/ CommandEnds(w) \/ Reap(w)
             \/ Heartbeat(w) \/ HeartbeatFails(w) \/ Crash(w)
      PROVE  StillRuns'
  <2>1. UNCHANGED state
    BY <1>9 DEF Start, AcquireLock, Settle, Checkpoint, EnterShield, LeaveShield, Spawn, Track, TrackFails,
                CommandEnds, Reap, Heartbeat, HeartbeatFails, Crash
  <2>2. Checkpoint(w) => \A v \in Workers : pc'[v] \in Running => pc[v] \in Running
    BY <1>0 DEF Checkpoint, Go, Running
  <2>3. Crash(w) => \A v \in Workers : pc'[v] \in Running => pc[v] \in Running /\ job'[v] = job[v]
    BY <1>0 DEF Crash, Go, Running, EndRun
  <2>4. Start(w) \/ AcquireLock(w) \/ Settle(w) \/ EnterShield(w) \/ LeaveShield(w)
        \/ Spawn(w) \/ Track(w) \/ TrackFails(w) \/ CommandEnds(w) \/ Reap(w)
        \/ Heartbeat(w) \/ HeartbeatFails(w)
        => \A v \in Workers : pc'[v] \in Running => pc[v] \in Running
    BY <1>0 DEF Start, AcquireLock, Settle, EnterShield, LeaveShield, Spawn, Track, TrackFails, CommandEnds,
                Reap, Heartbeat, HeartbeatFails, Go, Running
  <2>5. ~Crash(w) => job' = job
    BY <1>9 DEF Start, AcquireLock, Settle, Checkpoint, EnterShield, LeaveShield, Spawn, Track, TrackFails,
                CommandEnds, Reap, Heartbeat, HeartbeatFails
  <2> QED BY <1>9, <2>1, <2>2, <2>3, <2>4, <2>5, <1>8
<1>10. ASSUME (\E j \in Jobs : RequestCancel(j)) \/ Tick \/ UNCHANGED vars PROVE StillRuns'
  BY <1>10 DEF RequestCancel, Tick
<1> QED
  BY <1>2, <1>3, <1>4, <1>5, <1>6, <1>7, <1>9, <1>10 DEF Next, Api, Worker, Program

(* Every step keeps the count of late commands at one. *)
LEMMA QuietStep == TypeOK /\ AloneInv /\ StillRuns /\ QuietInv /\ [Next]_vars => QuietInv'
<1> SUFFICES ASSUME TypeOK, AloneInv, StillRuns, QuietInv, [Next]_vars PROVE QuietInv'
  OBVIOUS
<1>0. /\ pc \in [Workers -> PCs] /\ job \in [Workers -> Jobs \union {NoJob}] /\ after \in [Jobs -> 0 .. 2]
      /\ cancelRequested \in [Jobs -> BOOLEAN] /\ shielded \in [Workers -> BOOLEAN]
      /\ \A w \in Workers : pc[w] \in Running => job[w] \in Jobs
      /\ \A v, w \in Workers : pc[v] \in Running /\ pc[w] \in Running => v = w
  BY DEF TypeOK, AloneInv, LockHeld, RunsAJob
<1> USE DEF QuietInv
<1>1. ASSUME UNCHANGED after, \A j \in Jobs : cancelRequested[j] => cancelRequested'[j],
             \A w \in Workers : pc'[w] = "go" =>
               pc[w] = "go" /\ job'[w] = job[w] /\ shielded'[w] = shielded[w]
      PROVE  QuietInv'
  BY <1>1
<1>2. ASSUME NEW w \in Workers, Checkpoint(w) PROVE QuietInv'
  <2>1. job[w] \in Jobs /\ state[job[w]] \in {"running", "cancelled"}
    BY <1>0, <1>2 DEF Checkpoint, Running, StillRuns
  <2>2. pc'[w] = "go" /\ cancelRequested[job[w]] => shielded[w]
    BY <1>0, <1>2, <2>1 DEF Checkpoint, Interruption, Deferred, Go
  <2>3. \A v \in Workers \ {w} : pc'[v] = pc[v]
    BY <1>0, <1>2 DEF Checkpoint, Go
  <2> QED BY <1>2, <2>2, <2>3 DEF Checkpoint
<1>3. ASSUME NEW w \in Workers, Spawn(w) PROVE QuietInv'
  <2>1. job[w] \in Jobs /\ pc[w] = "go" /\ UNCHANGED <<job, shielded, cancelRequested>>
    BY <1>0, <1>3 DEF Spawn, Running
  <2>2. \A v \in Workers : pc'[v] # "go"
    BY <1>0, <1>3 DEF Spawn, Go, Running
  <2>3. \A j \in Jobs :
          \/ after'[j] = after[j]
          \/ j = job[w] /\ cancelRequested[j] /\ ~shielded[w] /\ after'[j] = after[j] + 1
    <3>1. CASE cancelRequested[job[w]] /\ ~shielded[w] /\ after[job[w]] < 2
      <4>1. after' = [after EXCEPT ![job[w]] = @ + 1]
        BY <1>3, <3>1 DEF Spawn
      <4>2. \A j \in Jobs : after'[j] = after[j] \/ (j = job[w] /\ after'[j] = after[j] + 1)
        BY <1>0, <2>1, <4>1
      <4> HIDE <1>3
      <4> QED BY <3>1, <4>2
    <3>2. CASE ~(cancelRequested[job[w]] /\ ~shielded[w] /\ after[job[w]] < 2)
      <4>1. after' = after
        BY <1>3, <3>2 DEF Spawn
      <4> QED BY <4>1
    <3> QED BY <3>1, <3>2
  <2>4. ~shielded[w] => after[job[w]] = 0
    BY <1>0, <2>1
  <2> QED BY <1>0, <2>1, <2>2, <2>3, <2>4
<1>4. ASSUME NEW w \in Workers, Claim(w) PROVE QuietInv'
  <2>1. \A v \in Workers : pc'[v] = "go" => v # w
    BY <1>0, <1>4 DEF Claim, Go
  <2>2. \A v \in Workers \ {w} : pc'[v] = pc[v] /\ job'[v] = job[v] /\ shielded'[v] = shielded[v]
    BY <1>0, <1>4 DEF Claim, Go
  <2> QED BY <1>1, <1>4, <2>1, <2>2 DEF Claim
<1>5. ASSUME NEW w \in Workers,
             (\E outcome \in {"succeeded", "failed"} : Finish(w, outcome)) \/ Unwind(w) \/ Crash(w)
      PROVE  QuietInv'
  <2>1. \A v \in Workers : pc'[v] = "go" => v # w
    BY <1>0, <1>5 DEF Finish, Unwind, Crash, Go
  <2>2. \A v \in Workers \ {w} : pc'[v] = pc[v] /\ job'[v] = job[v] /\ shielded'[v] = shielded[v]
    BY <1>0, <1>5 DEF Finish, Unwind, Crash, Go, EndRun
  <2>3. UNCHANGED <<after, cancelRequested>>
    BY <1>5 DEF Finish, Unwind, Crash
  <2> QED BY <1>1, <2>1, <2>2, <2>3
<1>6. ASSUME NEW w \in Workers, EnterShield(w) \/ LeaveShield(w) PROVE QuietInv'
  <2>1. \A v \in Workers : pc'[v] = "go" => v # w
    BY <1>6 DEF EnterShield, LeaveShield
  <2>2. \A v \in Workers \ {w} : shielded'[v] = shielded[v]
    BY <1>0, <1>6 DEF EnterShield, LeaveShield
  <2> QED BY <1>1, <1>6, <2>1, <2>2 DEF EnterShield, LeaveShield
<1>7. ASSUME NEW w \in Workers,
             Start(w) \/ AcquireLock(w) \/ Settle(w) \/ Track(w) \/ TrackFails(w) \/ CommandEnds(w)
             \/ Reap(w) \/ Heartbeat(w) \/ HeartbeatFails(w)
      PROVE  QuietInv'
  <2>1. UNCHANGED <<job, shielded, after, cancelRequested>>
    BY <1>7 DEF Start, AcquireLock, Settle, Track, TrackFails, CommandEnds, Reap, Heartbeat, HeartbeatFails
  <2>2. \A v \in Workers : pc'[v] = "go" => pc[v] = "go"
    BY <1>0, <1>7 DEF Start, AcquireLock, Settle, Track, TrackFails, CommandEnds, Reap, Heartbeat,
                      HeartbeatFails, Go
  <2> QED BY <1>1, <2>1, <2>2
<1>8. ASSUME NEW j \in Jobs, RequestCancel(j) \/ CancelNow(j) PROVE QuietInv'
  <2>1. \A i \in Jobs : cancelRequested[i] => cancelRequested'[i]
    BY <1>0, <1>8 DEF RequestCancel, CancelNow
  <2> QED BY <1>1, <1>8, <2>1 DEF RequestCancel, CancelNow
<1>9. ASSUME Tick \/ UNCHANGED vars PROVE QuietInv'
  BY <1>9 DEF Tick
<1>10. ASSUME NEW c \in Callers, NEW k \in Keys \union {NoKey},
              (\E d \in Commands : Create(c, d, k)) \/ (\E j \in Jobs : Retry(c, j, k))
       PROVE  QuietInv'
  BY <1>10 DEF Create, Retry, Submit
<1> QED
  BY <1>2, <1>3, <1>4, <1>5, <1>6, <1>7, <1>8, <1>9, <1>10 DEF Next, Api, Worker, Program

(* After a cancellation was requested, at most one unshielded command of the job
   starts: the one that had passed its checkpoint (NothingAfterCancel). *)
THEOREM CancelledSoonStops == Spec => []NothingAfterCancel
<1>1. Init => AloneInv /\ StillRuns /\ QuietInv
  BY DEF Init, AloneInv, LockHeld, SettledInv, RunsAJob, StillRuns, QuietInv, Running
<1>2. QuietInv => NothingAfterCancel
  BY DEF QuietInv, NothingAfterCancel
<1> QED
  BY <1>1, <1>2, AloneStep, StillRunsStep, QuietStep, TypeCorrect, PTL DEF Spec

-----------------------------------------------------------------------------
(* The queue implements JobContract: every step of a job's row is an Accept, a
   Begin or an End of the contract, or leaves its view unchanged. *)

View == [j \in Jobs |-> PhaseOf(state[j])]

LEMMA ViewEnds ==
  ASSUME TypeOK, NEW j \in Jobs, NEW outcome \in {"succeeded", "failed", "cancelled"},
         state[j] \in Active, outcome = "succeeded" => state[j] = "running",
         state' = [state EXCEPT ![j] = outcome], service' = service
  PROVE  Contract!End({j}, outcome)
<1>1. View' = [i \in Jobs |-> IF i \in {j} THEN outcome ELSE View[i]]
  BY DEF TypeOK, View, PhaseOf
<1>2. View[j] \in {"open", "started"} /\ (outcome = "succeeded" => View[j] = "started")
  BY DEF View, PhaseOf, Active
<1> QED
  BY <1>1, <1>2 DEF Contract!End, Contract!Open, View

LEMMA ViewAccepts ==
  ASSUME TypeOK, NEW r, NEW s \in Services \union {NoService}, NEW k, NEW states \in [Jobs -> States],
         NEW closed \in SUBSET Jobs,
         closed \subseteq ActiveOf(s, state), \A i \in closed : state[i] = "waiting_for_confirmation",
         states = [i \in Jobs |-> IF i \in closed THEN "cancelled" ELSE state[i]],
         Insert(r, s, k, states)
  PROVE  \E j \in Jobs : Contract!Accept(j, s)
<1>1. PICK j \in Jobs : /\ state[j] = "absent" /\ state' = [states EXCEPT ![j] = "queued"]
                        /\ service' = [service EXCEPT ![j] = s]
                        /\ ActiveOf(s, states) = {}
  BY DEF Insert
<1>2. ActiveOf(s, state) = closed
  BY <1>1 DEF ActiveOf, Active
<1>3. Contract!OpenOf(s) = closed
  <2>1. \A i \in Jobs : View[i] \in {"open", "started"} <=> state[i] \in Active
    BY DEF View, PhaseOf, Active, TypeOK, States, Terminal
  <2>2. Contract!OpenOf(s) = {i \in Jobs : View[i] \in {"open", "started"} /\ service[i] = s}
    BY DEF Contract!OpenOf, Contract!Open, View
  <2> QED BY <1>2, <2>1, <2>2 DEF ActiveOf
<1>4. View[j] = "absent" /\ \A i \in closed : View[i] = "open"
  BY <1>1 DEF View, PhaseOf
<1>5. View' = [i \in Jobs |-> IF i = j THEN "open" ELSE IF i \in closed THEN "cancelled" ELSE View[i]]
  BY <1>1 DEF TypeOK, View, PhaseOf
<1> QED
  BY <1>1, <1>3, <1>4, <1>5 DEF Contract!Accept, View

LEMMA ViewStep ==
  ASSUME TypeOK, RunsAJob, OneActivePerService, [Next]_vars
  PROVE  [Contract!Next]_(Contract!vars)
<1>0. state \in [Jobs -> States] /\ service \in [Jobs -> Services \union {NoService}]
  BY DEF TypeOK
<1>1. ASSUME state' = state, service' = service PROVE UNCHANGED Contract!vars
  BY <1>1 DEF Contract!vars
<1>2. ASSUME NEW closed \in SUBSET Jobs, NEW outcome \in {"succeeded", "failed", "cancelled"},
             Contract!End(closed, outcome)
      PROVE  Contract!Next
  BY <1>2 DEF Contract!Next, Contract!Outcomes
<1>3. ASSUME NEW c \in Callers, NEW k \in Keys \union {NoKey}, NEW d \in Commands, Create(c, d, k)
      PROVE  [Contract!Next]_(Contract!vars)
  <2> DEFINE r == [caller |-> c, namespace |-> "jobs", payload |-> d]
  <2>0. ServiceOf[d] \in Services
    BY ServiceAssumption
  <2>1. CASE Join(r, ServiceOf[d], k, state)
    BY <1>1, <2>1 DEF Join
  <2>2. CASE Insert(r, ServiceOf[d], k, state)
    <3>1. state = [i \in Jobs |-> IF i \in {} THEN "cancelled" ELSE state[i]]
      BY <1>0
    <3>2. \E j \in Jobs : Contract!Accept(j, ServiceOf[d])
      <4> HIDE DEF r
      <4>1. {} \in SUBSET Jobs /\ {} \subseteq ActiveOf(ServiceOf[d], state)
        OBVIOUS
      <4>2. \A i \in {} : state[i] = "waiting_for_confirmation"
        OBVIOUS
      <4> QED BY <1>0, <2>0, <2>2, <3>1, <4>1, <4>2, ViewAccepts
    <3> QED BY <2>0, <3>2 DEF Contract!Next
  <2> QED BY <1>3, <2>1, <2>2 DEF Create, Submit
<1>4. ASSUME NEW c \in Callers, NEW k \in Keys \union {NoKey}, NEW j \in Jobs, Retry(c, j, k)
      PROVE  [Contract!Next]_(Contract!vars)
  <2> DEFINE r == [caller |-> c, namespace |-> "jobs.retry", payload |-> j]
             states == IF state[j] = "failed" THEN state ELSE [state EXCEPT ![j] = "cancelled"]
             closed == IF state[j] = "failed" THEN {} ELSE {j}
  <2>0. service[j] \in Services \union {NoService} /\ state[j] \in {"failed", "waiting_for_confirmation"}
    BY <1>0, <1>4 DEF Retry
  <2>1. states \in [Jobs -> States]
    BY <1>0 DEF States, Terminal
  <2>2. /\ closed \in SUBSET Jobs /\ closed \subseteq ActiveOf(service[j], state)
        /\ \A i \in closed : state[i] = "waiting_for_confirmation"
    BY <2>0 DEF ActiveOf, Active
  <2>3. states = [i \in Jobs |-> IF i \in closed THEN "cancelled" ELSE state[i]]
    BY <1>0
  <2>4. CASE Join(r, service[j], k, states)
    <3>1. PICK i \in Jobs : states[i] \in Active /\ service[i] = service[j]
      BY <2>4 DEF Join, ActiveOf
    <3>2. CASE state[j] = "failed"
      BY <1>1, <2>4, <3>2 DEF Join
    <3>3. CASE state[j] = "waiting_for_confirmation"
      <4>1. i # j /\ state[i] \in Active
        BY <1>0, <3>1, <3>3 DEF Active
      <4> QED BY <3>1, <3>3, <4>1 DEF OneActivePerService, Active
    <3> QED BY <2>0, <3>2, <3>3
  <2>5. CASE Insert(r, service[j], k, states)
    <3>1. \E i \in Jobs : Contract!Accept(i, service[j])
      <4> HIDE DEF states, closed, r
      <4> QED BY <2>0, <2>1, <2>2, <2>3, <2>5, ViewAccepts
    <3> QED BY <2>0, <3>1 DEF Contract!Next
  <2> QED BY <1>4, <2>4, <2>5 DEF Retry, Submit
<1>5. ASSUME NEW j \in Jobs, CancelNow(j) PROVE [Contract!Next]_(Contract!vars)
  <2>1. CASE state[j] \in Active /\ state' = [state EXCEPT ![j] = "cancelled"]
    BY <1>2, <1>5, <2>1, ViewEnds DEF CancelNow
  <2>2. CASE state' = state
    BY <1>1, <1>5, <2>2 DEF CancelNow
  <2>3. CanMove(state[j], "cancelled") => state[j] = "cancelled" \/ state[j] \in Active
    BY <1>0 DEF CanMove, Transitions, Active, States, Terminal
  <2>4. state[j] = "cancelled" => [state EXCEPT ![j] = "cancelled"] = state
    BY <1>0
  <2> QED BY <1>5, <2>1, <2>2, <2>3, <2>4 DEF CancelNow
<1>6. ASSUME NEW w \in Workers, Claim(w) PROVE [Contract!Next]_(Contract!vars)
  <2>0. service' = service /\ \A i \in Abandoned : state[i] = "running"
    BY <1>6 DEF Claim, Abandoned, Expired
  <2>1. CASE Positions = {}
    <3>1. View' = [i \in Jobs |-> IF i \in Abandoned THEN "cancelled" ELSE View[i]]
      BY <1>0, <1>6, <2>1 DEF Claim, View, PhaseOf
    <3>2. Abandoned \in SUBSET Jobs /\ \A i \in Abandoned : View[i] = "started"
      BY <2>0 DEF Abandoned, View, PhaseOf
    <3>3. Contract!End(Abandoned, "cancelled")
      BY <2>0, <3>1, <3>2 DEF Contract!End, Contract!Open, View
    <3> QED BY <1>2, <3>2, <3>3
  <2>2. CASE Positions # {}
    <3>1. PICK j \in Jobs : /\ Oldest(j)
                            /\ state' = [i \in Jobs |-> CASE i = j -> "running"
                                                          [] i \in Abandoned -> "cancelled"
                                                          [] OTHER -> state[i]]
      BY <1>6, <2>2 DEF Claim
    <3>2. Claimable(j)
      BY <3>1 DEF Oldest, Positions
    <3>3. state[j] \in {"queued", "running"} /\ j \notin Abandoned
      BY <3>2 DEF Claimable, Expired, Abandoned
    <3>4. View' = [i \in Jobs |-> IF i = j THEN "started"
                                  ELSE IF i \in Abandoned THEN "cancelled" ELSE View[i]]
      <4>1. \A i \in Jobs : state'[i] = IF i = j THEN "running"
                                       ELSE IF i \in Abandoned THEN "cancelled" ELSE state[i]
        BY <3>1, <3>3
      <4>2. \A i \in Jobs : PhaseOf(state'[i]) = IF i = j THEN "started"
                                       ELSE IF i \in Abandoned THEN "cancelled" ELSE PhaseOf(state[i])
        <5> HIDE <2>2, <3>1
        <5>1. TAKE i \in Jobs
        <5>2. CASE i = j
          BY <4>1, <5>2 DEF PhaseOf
        <5>3. CASE i # j /\ i \in Abandoned
          BY <4>1, <5>3 DEF PhaseOf
        <5>4. CASE i # j /\ i \notin Abandoned
          <6>1. state'[i] = state[i]
            BY <4>1, <5>4
          <6> QED BY <5>4, <6>1
        <5> QED BY <5>2, <5>3, <5>4
      <4>3. View' = [i \in Jobs |-> PhaseOf(state'[i])] /\ \A i \in Jobs : View[i] = PhaseOf(state[i])
        BY DEF View, PhaseOf
      <4> QED BY <4>2, <4>3
    <3>5. View[j] \in {"open", "started"} /\ \A i \in Abandoned : View[i] = "started"
      BY <2>0, <3>3 DEF Abandoned, View, PhaseOf
    <3>6. Contract!Begin(j, Abandoned)
      BY <2>0, <3>3, <3>4, <3>5 DEF Contract!Begin, Contract!Open, View
    <3> QED BY <3>6 DEF Contract!Next, Abandoned
  <2> QED BY <2>1, <2>2
<1>7. ASSUME NEW w \in Workers, NEW outcome \in {"succeeded", "failed"}, Finish(w, outcome)
      PROVE  [Contract!Next]_(Contract!vars)
  <2>1. job[w] \in Jobs
    BY <1>7 DEF Finish, RunsAJob, Running
  <2>2. CASE state' = state
    BY <1>1, <1>7, <2>2 DEF Finish
  <2>3. CASE CanMove(state[job[w]], outcome) /\ state' = [state EXCEPT ![job[w]] = outcome]
    <3>1. state[job[w]] = outcome \/ (state[job[w]] \in Active /\ (outcome = "succeeded" => state[job[w]] = "running"))
      BY <1>0, <2>1, <2>3 DEF CanMove, Transitions, Active, States, Terminal
    <3>2. CASE state[job[w]] = outcome
      BY <1>0, <1>1, <1>7, <2>1, <2>3, <3>2 DEF Finish
    <3> QED BY <1>2, <1>7, <2>1, <2>3, <3>1, <3>2, ViewEnds DEF Finish
  <2> QED BY <1>7, <2>2, <2>3 DEF Finish
<1>8. ASSUME NEW w \in Workers, Unwind(w) PROVE [Contract!Next]_(Contract!vars)
  <2>1. job[w] \in Jobs
    BY <1>8 DEF Unwind, RunsAJob, Running
  <2>2. CASE state' = state
    BY <1>1, <1>8, <2>2 DEF Unwind
  <2>3. CASE state[job[w]] = "running" /\ state' = [state EXCEPT ![job[w]] = "cancelled"]
    BY <1>2, <1>8, <2>1, <2>3, ViewEnds DEF Unwind, Active
  <2> QED BY <1>8, <2>2, <2>3 DEF Unwind
<1> QED
  BY <1>1, <1>3, <1>4, <1>5, <1>6, <1>7, <1>8
  DEF Next, Api, RequestCancel, Worker, Program, Start, AcquireLock, Settle, Checkpoint, EnterShield, LeaveShield,
      Spawn, Track, TrackFails, CommandEnds, Reap, Heartbeat, HeartbeatFails, Crash, Tick

(* Callers see the contract, whatever workers, leases and locks do. *)
THEOREM QueueImplementsContract == Spec => ContractSpec
<1>1. Init => Contract!Init
  BY DEF Init, Contract!Init, PhaseOf
<1>2. AloneInv => RunsAJob
  BY DEF AloneInv
<1>3. Init => AloneInv
  BY DEF Init, AloneInv, LockHeld, SettledInv, RunsAJob, Running
<1> QED
  BY <1>1, <1>2, <1>3, AloneStep, TypeCorrect, OneActiveJob, ViewStep, PTL
  DEF Spec, ContractSpec, Contract!Spec
=============================================================================
