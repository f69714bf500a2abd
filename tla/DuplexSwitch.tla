--------------------------- MODULE DuplexSwitch ---------------------------
(* The voice assistant's full-duplex mode (ctl/duplex_voice.py): one model that
   holds the graphics card alone.  The switch stops every app with a GPU build,
   remembers each, and starts them again when it goes back; every other start
   of such an app is refused meanwhile.  The voice agent reads its settings
   from a file, written by the switch, by the page of settings and by the
   worker's upkeep.  Composed with AiRouting, whose jobs need the runner. *)
EXTENDS AiRouting, FiniteSets

CONSTANT GpuApps   \* the apps with a GPU build; the model runner is one

VARIABLES
  rec,      \* the recorded state of each app: running or stopped
  wish,     \* the apps the owner wants running
  missed,   \* the apps named to the owner because they did not start again
  agent,    \* what the agent's settings file says
  page      \* a change of the voice page between its reading and its writing

vars == <<routing, engine, up, jobs, rec, wish, missed, agent, page>>
apps == <<rec, wish, missed>>

Modes == {"pipeline", "duplex"}
Omni == "omni"
ASSUME SwitchAssumption ==
  IsFiniteSet(GpuApps) /\ Runner \in GpuApps /\ Omni \notin GpuApps

RoutingPlaces == {"fetch", "save", "probe", "undo", "follow", "begin", "check",
                  "write", "gateway", "models", "forget"}
SwitchPlaces == {"build", "choose", "stop", "remember", "card", "start", "warm", "loaded", "tell",
                 "retract", "put_back", "tell_back", "restart", "down", "card_off"}
TypeOK ==
  /\ chat \in Sources /\ voice \in Privacies \cup {"follows"} /\ shown \in Sources
  /\ provider \in {"absent", "verifying", "verified", "degraded", "disabled", "removing"}
  /\ secret \in BOOLEAN
  /\ {file, live} \subseteq [key : {"none", "off", "on"}, models : [chat : Sources, voice : Privacies]]
  /\ engine \in [mode : Modes, agent : Modes, stopped : SUBSET GpuApps]
  /\ up \subseteq GpuApps \cup {Omni} /\ wish \subseteq GpuApps /\ missed \subseteq GpuApps
  /\ rec \in [GpuApps -> {"running", "stopped"}]
  /\ agent \in Modes /\ page \in Modes \cup {"none"}
  /\ Len(queue) <= 2 /\ run.at \in {"idle"} \cup RoutingPlaces \cup SwitchPlaces
  /\ last.outcome \in {"none", "cut", "succeeded", "failed"}

SwitchInit ==
  /\ Init /\ up = GpuApps /\ wish = GpuApps
  /\ rec = [a \in GpuApps |-> "running"] /\ missed = {} /\ agent = "pipeline" /\ page = "none"

(* ---- People ------------------------------------------------------------- *)
AskEngine(want) ==
  /\ CanQueue("engine") /\ want # engine.mode /\ Queue("engine", want)
  /\ UNCHANGED <<routing, engine, up, apps, agent, page>>

\* The guard of every Compose start (start_refused).
StartRefused == engine.mode = "duplex"
OwnerStops(a) ==
  /\ At("idle") /\ a \in up /\ spent.asks < MaxAsks
  /\ up' = up \ {a} /\ rec' = [rec EXCEPT ![a] = "stopped"] /\ wish' = wish \ {a}
  /\ spent' = [spent EXCEPT !.asks = @ + 1]
  /\ UNCHANGED <<routing, engine, queue, run, last, missed, agent, page>>
OwnerStarts(a) ==
  /\ At("idle") /\ a \notin up /\ ~StartRefused
  /\ up' = up \cup {a} /\ rec' = [rec EXCEPT ![a] = "running"]
  /\ wish' = wish \cup {a} /\ missed' = missed \ {a}
  /\ spent' = [spent EXCEPT !.lost = @ \ {a}]
  /\ UNCHANGED <<routing, engine, queue, run, last, agent, page>>

\* The page of the voice settings writes the agent's file from the API.
PageReads ==
  /\ page = "none" /\ spent.asks < MaxAsks /\ page' = engine.agent
  /\ spent' = [spent EXCEPT !.asks = @ + 1]
  /\ UNCHANGED <<routing, engine, up, queue, run, last, apps, agent>>
PageWrites ==
  /\ page # "none" /\ agent' = page /\ page' = "none"
  /\ UNCHANGED <<routing, engine, up, jobs, apps>>
\* The worker's upkeep, between jobs (chat_ops.sync_agents).
Sync ==
  /\ At("idle") /\ agent' = engine.agent
  /\ UNCHANGED <<routing, engine, up, jobs, apps, page>>

(* ---- The switch --------------------------------------------------------- *)
Same == UNCHANGED <<routing, apps, page>>
SwitchBegins ==
  /\ At("begin") /\ Doing({"engine"})
  /\ CASE Job.want = engine.mode -> End("failed")
       [] Job.want = "duplex" /\ engine.mode # "duplex" -> Go("build")
       [] Job.want = "pipeline" /\ engine.mode # "pipeline" -> Go("down")
  /\ Same /\ UNCHANGED <<engine, up, agent, spent>>
\* The locks, the download, its checksums and the build: nothing changed yet.
Build ==
  /\ At("build")
  /\ \/ Go("choose") /\ Succeeds
     \/ End("failed") /\ Fails
  /\ Same /\ UNCHANGED <<engine, up, agent>>
Choose ==
  /\ At("choose") /\ engine' = [mode |-> "duplex", agent |-> "pipeline", stopped |-> {}]
  /\ Go("stop") /\ Same /\ UNCHANGED <<up, agent, spent>>

\* `lost`: apps that a failure leaves down with nobody told that they are.
Loses(lost) ==
  /\ spent.trouble < MaxTrouble
  /\ spent' = [spent EXCEPT !.trouble = @ + 1, !.lost = @ \cup lost]

ToStop == {a \in GpuApps : rec[a] # "stopped"}
\* The message of a failed stop says only that the app could not be stopped.
StopApp(a) ==
  /\ At("stop") /\ a \in ToStop
  /\ \/ /\ up' = up \ {a} /\ rec' = [rec EXCEPT ![a] = "stopped"]
        /\ run' = [run EXCEPT !.at = "remember", !.stopped = @ \cup {a}]
        /\ Succeeds
     \/ /\ \/ UNCHANGED up /\ Fails
           \/ up' = up \ {a} /\ Loses({a})
        /\ run' = [run EXCEPT !.at = "retract"] /\ UNCHANGED rec
  /\ UNCHANGED <<routing, engine, queue, last, wish, missed, agent, page>>
\* Mutant: the stopped apps are recorded only with the loaded model.
Remember_AtTheEnd ==
  /\ At("remember") /\ Go("stop") /\ Same /\ UNCHANGED <<engine, up, agent, spent>>
Remember ==
  /\ At("remember") /\ engine' = [engine EXCEPT !.stopped = run.stopped]
  /\ Go("stop") /\ Same /\ UNCHANGED <<up, agent, spent>>
\* `unseen`: what ran when the card was taken for free.  The check passes when
\* nvidia-smi fails, or lists no process of what runs.
CardFree ==
  /\ At("stop") /\ ToStop = {}
  /\ \/ /\ up # {} => spent.trouble < MaxTrouble
        /\ spent' = [spent EXCEPT !.unseen = up, !.trouble = IF up = {} THEN @ ELSE @ + 1]
        /\ Go("start")
     \/ Go("retract") /\ (IF up = {} THEN Fails ELSE Succeeds)
  /\ Same /\ UNCHANGED <<engine, up, agent>>
StartOmni ==
  /\ At("start")
  /\ \/ up' = up \cup {Omni} /\ Go("warm") /\ Succeeds
     \/ up' \in {up, up \cup {Omni}} /\ Go("retract") /\ Fails
  /\ Same /\ UNCHANGED <<engine, agent>>
Warm ==
  /\ At("warm")
  /\ \/ Go("loaded") /\ Succeeds
     \/ Go("retract") /\ Fails
  /\ Same /\ UNCHANGED <<engine, up, agent>>
Loaded ==
  /\ At("loaded") /\ engine' = [mode |-> "duplex", agent |-> "duplex", stopped |-> run.stopped]
  /\ Go("tell") /\ Same /\ UNCHANGED <<up, agent, spent>>
Tell ==
  /\ At("tell")
  /\ \/ agent' = engine.agent /\ End("succeeded") /\ Succeeds
     \/ agent' \in {agent, engine.agent} /\ Go("retract") /\ Fails
  /\ Same /\ UNCHANGED <<engine, up>>

(* ---- Going back, after a failure or because the owner asked ------------- *)
\* `stuck`: the model could not be stopped, and the switch goes on.
Retract ==
  /\ At("retract") /\ Go("put_back")
  /\ \/ up' = up \ {Omni} /\ Succeeds
     \/ UNCHANGED up /\ spent.trouble < MaxTrouble
        /\ spent' = [spent EXCEPT !.trouble = @ + 1, !.stuck = TRUE]
  /\ Same /\ UNCHANGED <<engine, agent>>
Down ==
  /\ At("down")
  /\ \/ up' = up \ {Omni} /\ Go("card_off") /\ Succeeds
     \/ UNCHANGED up /\ End("failed") /\ Fails
  /\ Same /\ UNCHANGED <<engine, agent>>
CardFreed ==
  /\ At("card_off")
  /\ \/ /\ (IF up = {} THEN Succeeds ELSE Fails) /\ UNCHANGED <<queue, last>>
        /\ run' = [run EXCEPT !.at = "put_back", !.stopped = engine.stopped]
     \/ End("failed") /\ (IF up = {} THEN Fails ELSE Succeeds)
  /\ Same /\ UNCHANGED <<engine, up, agent>>
PutBack ==
  /\ At("put_back") /\ engine' = [mode |-> "pipeline", agent |-> "pipeline", stopped |-> {}]
  /\ Go("tell_back") /\ Same /\ UNCHANGED <<up, agent, spent>>
\* The apps it stopped are no longer remembered when the file cannot be written.
TellBack ==
  /\ At("tell_back")
  /\ \/ agent' = engine.agent /\ Go("restart") /\ Succeeds
     \/ agent' \in {agent, engine.agent} /\ End("failed") /\ Loses(run.stopped)
  /\ Same /\ UNCHANGED <<engine, up>>

RestartApp(a) ==
  /\ At("restart") /\ a \in run.stopped
  /\ \/ /\ up' = up \cup {a} /\ rec' = [rec EXCEPT ![a] = "running"]
        /\ run' = [run EXCEPT !.stopped = @ \ {a}]
        /\ spent' = [spent EXCEPT !.lost = @ \ {a}] /\ UNCHANGED missed
     \/ /\ up' \in {up, up \cup {a}} /\ missed' = missed \cup {a}
        /\ run' = [run EXCEPT !.stopped = @ \ {a}, !.failed = TRUE]
        /\ Fails /\ UNCHANGED rec
  /\ UNCHANGED <<routing, engine, queue, last, wish, agent, page>>
SwitchEnds ==
  /\ At("restart") /\ run.stopped = {}
  /\ End(IF Job.want = "pipeline" /\ ~run.failed THEN "succeeded" ELSE "failed")
  /\ Same /\ UNCHANGED <<engine, up, agent, spent>>

SwitchSteps ==
  \/ SwitchBegins \/ Build \/ Choose \/ Remember \/ CardFree \/ StartOmni \/ Warm
  \/ Loaded \/ Tell \/ Retract \/ Down \/ CardFreed \/ PutBack \/ TellBack
  \/ \E a \in GpuApps : StopApp(a) \/ RestartApp(a)
  \/ SwitchEnds
Worker == SwitchSteps \/ ((Claim \/ RoutingSteps) /\ UNCHANGED <<apps, agent, page>>)
People ==
  \/ RoutingAsks /\ UNCHANGED <<apps, agent, page>>
  \/ \E want \in Modes : AskEngine(want)
  \/ \E a \in GpuApps : OwnerStops(a) \/ OwnerStarts(a)
  \/ PageReads
Next == Worker \/ People \/ PageWrites \/ Sync \/ (Cut /\ UNCHANGED <<apps, agent, page>>)

Fairness == WF_vars(Worker) /\ WF_vars(PageWrites) /\ WF_vars(Sync)
Spec == SwitchInit /\ [][Next]_vars /\ Fairness

(* ---- Properties --------------------------------------------------------- *)
\* The graphics card never holds the full-duplex model beside an app with a
\* GPU build ("the switch is strict") but one that ran, unseen, when the card
\* was checked, unless stopping that model failed.
OneModelOnCard == Omni \in up /\ ~spent.stuck => up \subseteq {Omni} \cup spent.unseen
\* The same without the exceptions: what the module's docstring says.
CardHoldsOneModel == Omni \in up => up = {Omni}

\* While no execution was cut short, an app the owner wants runs again after
\* every switch, or the owner was told that it does not, but those lost: one
\* whose own stop failed half-way, and those stopped when the agent's file
\* could not be written on the way back.  One the owner stopped stays stopped
\* (_start_apps, "an app the owner had stopped stays stopped").
AppsAsWished ==
  At("idle") /\ engine.mode = "pipeline" /\ spent.cuts = 0 =>
    /\ wish \subseteq up \cup missed \cup spent.lost
    /\ up \cap GpuApps \subseteq wish
\* The same without the exception of those lost: switching back "starts again
\* the apps this mode stopped" (the module's docstring).
DisplacedAppsReturn ==
  At("idle") /\ engine.mode = "pipeline" /\ spent.cuts = 0 => wish \subseteq up \cup missed

\* A switch cut short before it goes back forgets at most the app it was
\* stopping (_stop_apps remembers each at once): the others start again later.
LosesAtMostOne ==
  At("idle") /\ engine.mode = "duplex" /\ ~spent.late =>
    Cardinality(wish \ (up \cup missed \cup spent.lost \cup engine.stopped)) <= spent.cuts

\* The agent's file ends up saying how calls talk (agent_engine), also when the
\* page of settings writes what it read before a switch.
FileFollows == <>[](agent = engine.agent)

\* The card is shared: no second model but one that the check did not see or
\* that would not stop, every stopped app known or back but those lost as said
\* above, and the calls' settings follow the switch.
CardIsShared == [](TypeOK /\ OneModelOnCard /\ AppsAsWished /\ LosesAtMostOne) /\ FileFollows

============================================================================
