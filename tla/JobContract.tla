----------------------------- MODULE JobContract -----------------------------
(***************************************************************************)
(* What the job queue promises its callers, without leases, locks, crashes *)
(* or processes.  A job is accepted only for a service that has no other    *)
(* open job, apart from one that was waiting and is superseded by it; only  *)
(* a started job succeeds; an outcome is final.                             *)
(***************************************************************************)
CONSTANTS Jobs, Services, NoService

VARIABLES
  phase,   \* "absent", "open", "started" or an outcome
  about    \* the service of a job that exists

vars == <<phase, about>>

Open == {"open", "started"}
Outcomes == {"succeeded", "failed", "cancelled"}
OpenOf(s) == {j \in Jobs : phase[j] \in Open /\ about[j] = s}

Init ==
  /\ phase \in [Jobs -> {"absent", "open"}]
  /\ about \in [Jobs -> Services \union {NoService}]
  /\ \A i, j \in Jobs : phase[i] = "open" /\ phase[j] = "open" /\ about[i] = about[j] => i = j

Accept(j, s) ==
  /\ phase[j] = "absent"
  /\ \A i \in OpenOf(s) : phase[i] = "open"
  /\ phase' = [i \in Jobs |-> IF i = j THEN "open"
                              ELSE IF i \in OpenOf(s) THEN "cancelled" ELSE phase[i]]
  /\ about' = [about EXCEPT ![j] = s]

(* Work starts on a job, or starts again; started jobs given up end with it. *)
Begin(j, closed) ==
  /\ phase[j] \in Open /\ j \notin closed
  /\ \A i \in closed : phase[i] = "started"
  /\ phase' = [i \in Jobs |-> IF i = j THEN "started"
                              ELSE IF i \in closed THEN "cancelled" ELSE phase[i]]
  /\ UNCHANGED about

End(closed, outcome) ==
  /\ \A i \in closed : phase[i] \in Open
  /\ outcome = "succeeded" => \A i \in closed : phase[i] = "started"
  /\ phase' = [i \in Jobs |-> IF i \in closed THEN outcome ELSE phase[i]]
  /\ UNCHANGED about

Next ==
  \/ \E j \in Jobs, s \in Services \union {NoService} : Accept(j, s)
  \/ \E j \in Jobs, closed \in SUBSET Jobs : Begin(j, closed)
  \/ \E closed \in SUBSET Jobs, outcome \in Outcomes : End(closed, outcome)

Spec == Init /\ [][Next]_vars
=============================================================================
